---- MODULE Spec2Model ----
(***************************************************************************)
(* Catalog deployer (catalog/scripts/deployer.py), the feedback log and    *)
(* its statistics (catalog/scripts/metrics_collector.py, the loader and    *)
(* the statistics of catalog/scripts/weekly_reporter.py) and the profile   *)
(* matcher (match_profiles of catalog/scripts/project_profiler.py).        *)
(*                                                                         *)
(* Five specifications share the variables: Spec (reconciliation against   *)
(* the catalog), SpecState (the project profile over time), SpecFeedback   *)
(* (logging events and refreshing the metrics), SpecLog (reading a log)    *)
(* and SpecMatch (matching an analysis to the profiles).                   *)
(*                                                                         *)
(* The state is the target project's tree under <project>/.claude, the     *)
(* catalog the deployer copies from, the wall clock, and a record of the   *)
(* most recent call (its arguments, what it returned and printed, and the  *)
(* project tree it started from).                                          *)
(*                                                                         *)
(* File contents are abstracted to small integers: two files have the same *)
(* content iff they carry the same number; 0 (NoFile) is "no such file".   *)
(* Optional things (a file that may not exist) are sequences of length 0   *)
(* or 1.  Agent names range over ordinary agents; the dispatcher document  *)
(* agent-organizer.md is kept as a file of its own.                        *)
(***************************************************************************)
EXTENDS Integers, Sequences, FiniteSets, TLC

VARIABLES fs, release, now, last

vars == <<fs, release, now, last>>

----------------------------------------------------------------------------
(* Bounds of the model *)

MaxTime == 1

MaxLog == 1

----------------------------------------------------------------------------
(* Generic helpers *)

SeqToSet(s) == {s[i] : i \in DOMAIN s}

SetMin(S) == CHOOSE x \in S : \A y \in S : x <= y

----------------------------------------------------------------------------
(* The universe of names and contents *)

NoFile == 0

(* content of a file the user wrote or changed in the project by hand; the
   catalog holds no file with it *)
LocalContents == {9}

AgentNames == {"python-pro", "ui-designer"}

SkillNames == {"tdd-workflow", "react-best-practices"}

SkillFiles == {"SKILL.md", "notes.md"}

EmptyTree == [f \in SkillFiles |-> NoFile]

Tree(skill_md, notes_md) == [f \in SkillFiles |-> IF f = "SKILL.md" THEN skill_md ELSE notes_md]

AbsentEntry == [kind |-> "absent", tree |-> EmptyTree, readable |-> TRUE]

FileEntry == [kind |-> "file", tree |-> EmptyTree, readable |-> TRUE]

DirEntry(t) == [kind |-> "dir", tree |-> t, readable |-> TRUE]

(* a directory the deployer may not list: exists() and is_dir() hold, and
   shutil.copytree leaves by the PermissionError of os.scandir *)
UnreadableDirEntry(t) == [kind |-> "dir", tree |-> t, readable |-> FALSE]

(* Catalog releases: what CATALOG_DIR holds.  agents[a].curated lists, in
   the order agents_dir.iterdir() yields the category directories, the
   content of <category>/<a>.md; agents[a].ecc is
   everything-claude-code/agents/<a>.md.  skills[s] gives the entry at
   skills/vercel/<s>, skills/anthropic/<s> and
   everything-claude-code/skills/<s>. *)
Releases ==
  << [agents |-> [a \in AgentNames |->
                    IF a = "python-pro" THEN [curated |-> <<NoFile, 1>>, ecc |-> 2]
                    ELSE [curated |-> <<NoFile, NoFile>>, ecc |-> 1]],
      skills |-> [s \in SkillNames |->
                    IF s = "tdd-workflow"
                    THEN [vercel |-> AbsentEntry, anthropic |-> DirEntry(Tree(1, NoFile)),
                          ecc |-> DirEntry(Tree(2, 2))]
                    ELSE [vercel |-> AbsentEntry, anthropic |-> FileEntry,
                          ecc |-> DirEntry(Tree(1, 1))]]],
     [agents |-> [a \in AgentNames |->
                    IF a = "python-pro" THEN [curated |-> <<NoFile, 2>>, ecc |-> 2]
                    ELSE [curated |-> <<NoFile, NoFile>>, ecc |-> NoFile]],
      skills |-> [s \in SkillNames |->
                    IF s = "tdd-workflow"
                    THEN [vercel |-> DirEntry(Tree(2, 1)), anthropic |-> DirEntry(Tree(1, NoFile)),
                          ecc |-> AbsentEntry]
                    ELSE [vercel |-> AbsentEntry, anthropic |-> AbsentEntry, ecc |-> AbsentEntry]]],
     [agents |-> [a \in AgentNames |->
                    IF a = "python-pro" THEN [curated |-> <<NoFile, 2>>, ecc |-> 2]
                    ELSE [curated |-> <<2, NoFile>>, ecc |-> 1]],
      skills |-> [s \in SkillNames |->
                    IF s = "tdd-workflow"
                    THEN [vercel |-> DirEntry(Tree(2, 1)), anthropic |-> DirEntry(Tree(1, NoFile)),
                          ecc |-> AbsentEntry]
                    ELSE [vercel |-> AbsentEntry, anthropic |-> AbsentEntry,
                          ecc |-> DirEntry(Tree(1, 1))]]],
     [agents |-> [a \in AgentNames |->
                    IF a = "python-pro" THEN [curated |-> <<NoFile, 2>>, ecc |-> 2]
                    ELSE [curated |-> <<2, NoFile>>, ecc |-> 1]],
      skills |-> [s \in SkillNames |->
                    IF s = "tdd-workflow"
                    THEN [vercel |-> UnreadableDirEntry(Tree(2, 1)),
                          anthropic |-> DirEntry(Tree(1, NoFile)), ecc |-> AbsentEntry]
                    ELSE [vercel |-> AbsentEntry, anthropic |-> AbsentEntry,
                          ecc |-> DirEntry(Tree(1, 1))]]] >>

Catalog == Releases[release]

(* catalog/profiles/<name>.yaml, as yaml.safe_load returns it.  "optional"
   is a sequence of length 0 (key missing) or 1 (the list). *)
Profiles ==
  [ n \in {"python-backend", "nextjs-frontend"} |->
      IF n = "python-backend"
      THEN [name |-> n,
            agents |-> [core |-> <<"python-pro", "ui-designer">>, optional |-> << <<"python-pro">> >>],
            skills |-> <<"tdd-workflow", "react-best-practices">>,
            rules |-> <<"type hints">>]
      ELSE [name |-> n,
            agents |-> [core |-> <<"ui-designer">>, optional |-> << >>],
            skills |-> <<"react-best-practices">>,
            rules |-> << >>] ]

RequestedProfiles == DOMAIN Profiles \cup {"ai-ml"}

ProjectName == "shop-api"

----------------------------------------------------------------------------
(* The project tree *)

EmptyFs ==
  [exists |-> FALSE,
   dirs |-> {},
   agents |-> [a \in AgentNames |-> NoFile],
   skills |-> [s \in SkillNames |-> << >>],
   organizer |-> << >>,
   profile_file |-> << >>,
   log |-> << >>]

(* yaml.dump(..., sort_keys=False): the mapping becomes a document, a list
   of key/value lines in insertion order; yaml.safe_load reads the document
   back into a mapping. *)
yaml_dump(keys, data) == [i \in DOMAIN keys |-> <<keys[i], data[keys[i]]>>]

yaml_safe_load(doc) ==
  [k \in {doc[i][1] : i \in DOMAIN doc} |->
     doc[CHOOSE i \in DOMAIN doc : doc[i][1] = k /\ \A j \in DOMAIN doc : doc[j][1] = k => j <= i][2]]

----------------------------------------------------------------------------
(* deployer.py *)

(* load_profile falling back to a default profile instead of raising *)
load_profile_fallback(profile_name) ==
  IF profile_name \in DOMAIN Profiles
  THEN [raised |-> FALSE, profile |-> << Profiles[profile_name] >>]
  ELSE [raised |-> FALSE, profile |-> << Profiles["python-backend"] >>]

load_profile(profile_name) ==
  IF profile_name \in DOMAIN Profiles
  THEN [raised |-> FALSE, profile |-> << Profiles[profile_name] >>]
  ELSE [raised |-> TRUE, profile |-> << >>]

(* a lookup that tries the everything-claude-code mirror before the
   category directories *)
find_agent_mirror_first(cat, agent_name) ==
  LET e == cat.agents[agent_name]
      hits == {i \in DOMAIN e.curated : e.curated[i] # NoFile}
  IN  IF e.ecc # NoFile THEN [loc |-> "ecc", content |-> e.ecc]
      ELSE IF hits # {} THEN [loc |-> "curated", content |-> e.curated[SetMin(hits)]]
      ELSE [loc |-> "none", content |-> NoFile]

find_agent(cat, agent_name) ==
  LET e == cat.agents[agent_name]
      hits == {i \in DOMAIN e.curated : e.curated[i] # NoFile}
  IN  IF hits # {} THEN [loc |-> "curated", content |-> e.curated[SetMin(hits)]]
      ELSE IF e.ecc # NoFile THEN [loc |-> "ecc", content |-> e.ecc]
      ELSE [loc |-> "none", content |-> NoFile]

find_skill(cat, skill_name) ==
  LET e == cat.skills[skill_name]
  IN  IF e.vercel.kind # "absent" THEN [loc |-> "vercel", entry |-> e.vercel]
      ELSE IF e.anthropic.kind # "absent" THEN [loc |-> "anthropic", entry |-> e.anthropic]
      ELSE IF e.ecc.kind # "absent" THEN [loc |-> "ecc", entry |-> e.ecc]
      ELSE [loc |-> "none", entry |-> AbsentEntry]

all_agents(profile) ==
  profile.agents.core \o (IF profile.agents.optional = << >> THEN << >> ELSE profile.agents.optional[1])

(* deploy_agents recording an agent the catalog does not hold *)
deploy_agents_step_records_missing(st, cat, agent_name, force) ==
  LET src == find_agent(cat, agent_name)
  IN  IF st.files[agent_name] = NoFile \/ force
      THEN [st EXCEPT !.files[agent_name] = src.content,
                      !.deployed = Append(@, agent_name)]
      ELSE [st EXCEPT !.skipped = Append(@, agent_name)]

(* deploy_agents recording a copied agent as skipped when it overwrote *)
deploy_agents_step_overwrite_skipped(st, cat, agent_name, force) ==
  LET src == find_agent(cat, agent_name)
  IN  IF src.loc # "none"
      THEN IF st.files[agent_name] = NoFile
           THEN [st EXCEPT !.files[agent_name] = src.content,
                           !.deployed = Append(@, agent_name)]
           ELSE [st EXCEPT !.files[agent_name] = IF force THEN src.content ELSE @,
                           !.skipped = Append(@, agent_name)]
      ELSE [st EXCEPT !.warnings = Append(@, agent_name)]

(* One iteration of the loop of deploy_agents: st carries the destination
   files and the lists built so far. *)
deploy_agents_step(st, cat, agent_name, force) ==
  LET src == find_agent(cat, agent_name)
  IN  IF src.loc # "none"
      THEN IF st.files[agent_name] = NoFile \/ force
           THEN [st EXCEPT !.files[agent_name] = src.content,
                           !.deployed = Append(@, agent_name)]
           ELSE [st EXCEPT !.skipped = Append(@, agent_name)]
      ELSE [st EXCEPT !.warnings = Append(@, agent_name)]

RECURSIVE deploy_agents_loop(_, _, _, _, _)
deploy_agents_loop(st, cat, names, force, i) ==
  IF i > Len(names) THEN st
  ELSE deploy_agents_loop(deploy_agents_step(st, cat, names[i], force), cat, names, force, i + 1)

(* deploy_agents emptying .claude/agents before it copies *)
deploy_agents_fresh_directory(f, cat, profile, force) ==
  LET r == deploy_agents_loop([files |-> [a \in AgentNames |-> NoFile], deployed |-> << >>,
                               skipped |-> << >>, warnings |-> << >>],
                              cat, all_agents(profile), force, 1)
  IN  [fs |-> [f EXCEPT !.dirs = @ \cup {".claude", "agents"}, !.agents = r.files],
       deployed |-> r.deployed, skipped |-> r.skipped, warnings |-> r.warnings]

deploy_agents(f, cat, profile, force) ==
  LET r == deploy_agents_loop([files |-> f.agents, deployed |-> << >>, skipped |-> << >>,
                               warnings |-> << >>],
                              cat, all_agents(profile), force, 1)
  IN  [fs |-> [f EXCEPT !.dirs = @ \cup {".claude", "agents"}, !.agents = r.files],
       deployed |-> r.deployed, skipped |-> r.skipped, warnings |-> r.warnings]

(* shutil.rmtree(dst) and shutil.copytree(src, dst) on the destination
   entry d of one skill; copytree is only ever called on an absent d, and
   leaves d as it is when it cannot list src. *)
rmtree(d) == << >>

copytree(src, d) == IF src.readable THEN << src.tree >> ELSE d

(* deploy_skills copying over the old directory instead of replacing it
   (copytree(..., dirs_exist_ok=True) with no rmtree) *)
deploy_skills_step_merge(st, cat, skill_name, force) ==
  LET src == find_skill(cat, skill_name)
      dst == st.files[skill_name]
  IN  IF src.loc # "none" /\ src.entry.kind = "dir"
      THEN IF dst = << >> \/ force
           THEN [st EXCEPT !.files[skill_name] =
                             IF dst = << >> THEN << src.entry.tree >>
                             ELSE << [f \in SkillFiles |->
                                        IF src.entry.tree[f] # NoFile THEN src.entry.tree[f]
                                        ELSE dst[1][f]] >>,
                           !.deployed = Append(@, skill_name)]
           ELSE [st EXCEPT !.skipped = Append(@, skill_name)]
      ELSE [st EXCEPT !.warnings = Append(@, skill_name)]

deploy_skills_step(st, cat, skill_name, force) ==
  LET src == find_skill(cat, skill_name)
      dst == st.files[skill_name]
  IN  IF src.loc # "none" /\ src.entry.kind = "dir"
      THEN IF dst = << >> \/ force
           THEN IF src.entry.readable
                THEN [st EXCEPT !.files[skill_name] =
                                  copytree(src.entry, IF dst # << >> THEN rmtree(dst) ELSE dst),
                                !.deployed = Append(@, skill_name)]
                ELSE [st EXCEPT !.files[skill_name] =
                                  copytree(src.entry, IF dst # << >> THEN rmtree(dst) ELSE dst),
                                !.raised = TRUE]
           ELSE [st EXCEPT !.skipped = Append(@, skill_name)]
      ELSE [st EXCEPT !.warnings = Append(@, skill_name)]

RECURSIVE deploy_skills_loop(_, _, _, _, _)
deploy_skills_loop(st, cat, names, force, i) ==
  IF i > Len(names) \/ st.raised THEN st
  ELSE deploy_skills_loop(deploy_skills_step(st, cat, names[i], force), cat, names, force, i + 1)

deploy_skills(f, cat, profile, force) ==
  LET r == deploy_skills_loop([files |-> f.skills, deployed |-> << >>, skipped |-> << >>,
                               warnings |-> << >>, raised |-> FALSE],
                              cat, profile.skills, force, 1)
  IN  [fs |-> [f EXCEPT !.dirs = @ \cup {".claude", "skills"}, !.skills = r.files],
       deployed |-> r.deployed, skipped |-> r.skipped, warnings |-> r.warnings,
       raised |-> r.raised]

(* generate_organizer: the document is kept as the values substituted into
   the template; the fixed text of the template is left out. *)
agent_descriptions ==
  [a \in {"python-pro"} |-> "Python code, refactoring, debugging, new features"]

(* agent.replace('-', ' ').title() on the names of the model *)
title(agent) ==
  IF agent = "python-pro" THEN "Python Pro"
  ELSE IF agent = "ui-designer" THEN "Ui Designer"
  ELSE agent

describe(agent) ==
  IF agent \in DOMAIN agent_descriptions
  THEN [from |-> "table", text |-> agent_descriptions[agent]]
  ELSE [from |-> "title", text |-> title(agent) \o " tasks"]

(* generate_organizer leaving a dispatcher it finds in place, as the copy
   loops do with the artifacts they find *)
generate_organizer_keep_existing(f, profile, deployed_agents) ==
  IF f.organizer # << >> THEN f
  ELSE [f EXCEPT !.organizer =
          << [project_name |-> ProjectName,
              agents_table |-> [i \in DOMAIN deployed_agents |->
                                  <<deployed_agents[i], title(deployed_agents[i])>>],
              selection_guide |-> [i \in DOMAIN deployed_agents |->
                                     <<deployed_agents[i], describe(deployed_agents[i])>>],
              rules |-> profile.rules] >>]

generate_organizer(f, profile, deployed_agents) ==
  [f EXCEPT !.organizer =
     << [project_name |-> ProjectName,
         agents_table |-> [i \in DOMAIN deployed_agents |->
                             <<deployed_agents[i], title(deployed_agents[i])>>],
         selection_guide |-> [i \in DOMAIN deployed_agents |->
                                <<deployed_agents[i], describe(deployed_agents[i])>>],
         rules |-> profile.rules] >>]

ProfileKeys ==
  <<"project", "profile", "created", "last_sync", "catalog_version",
    "deployed_agents", "deployed_skills", "metrics">>

(* create_project_profile keeping "created" and "metrics" of the record
   it finds *)
create_project_profile_merge(f, t, profile_name, deployed_agents, deployed_skills) ==
  LET old == IF f.profile_file = << >> THEN << >> ELSE << yaml_safe_load(f.profile_file[1]) >>
      profile_data ==
        [project |-> ProjectName,
         profile |-> profile_name,
         created |-> IF old = << >> THEN t ELSE old[1].created,
         last_sync |-> t,
         catalog_version |-> "1.0",
         deployed_agents |-> deployed_agents,
         deployed_skills |-> deployed_skills,
         metrics |-> IF old = << >>
                     THEN [total_tasks |-> 0, accepted |-> 0, rejected |-> 0, iterations |-> 0]
                     ELSE old[1].metrics]
  IN  [f EXCEPT !.dirs = @ \cup {".claude"},
                !.profile_file = << yaml_dump(ProfileKeys, profile_data) >>]

(* create_project_profile writing the project's name where the profile's
   belongs *)
create_project_profile_swapped_name(f, t, profile_name, deployed_agents, deployed_skills) ==
  LET profile_data ==
        [project |-> profile_name,
         profile |-> ProjectName,
         created |-> t,
         last_sync |-> t,
         catalog_version |-> "1.0",
         deployed_agents |-> deployed_agents,
         deployed_skills |-> deployed_skills,
         metrics |-> [total_tasks |-> 0, accepted |-> 0, rejected |-> 0, iterations |-> 0]]
  IN  [f EXCEPT !.dirs = @ \cup {".claude"},
                !.profile_file = << yaml_dump(ProfileKeys, profile_data) >>]

create_project_profile(f, t, profile_name, deployed_agents, deployed_skills) ==
  LET profile_data ==
        [project |-> ProjectName,
         profile |-> profile_name,
         created |-> t,
         last_sync |-> t,
         catalog_version |-> "1.0",
         deployed_agents |-> deployed_agents,
         deployed_skills |-> deployed_skills,
         metrics |-> [total_tasks |-> 0, accepted |-> 0, rejected |-> 0, iterations |-> 0]]
  IN  [f EXCEPT !.dirs = @ \cup {".claude"},
                !.profile_file = << yaml_dump(ProfileKeys, profile_data) >>]

(* setup_metrics_directory opening feedback.jsonl for writing, which
   empties a log that is there *)
setup_metrics_directory_truncate(f) ==
  [f EXCEPT !.dirs = @ \cup {".claude", "metrics"},
            !.log = << << >> >>]

setup_metrics_directory(f) ==
  [f EXCEPT !.dirs = @ \cup {".claude", "metrics"},
            !.log = IF @ = << >> THEN << << >> >> ELSE @]

(* the project profile listing only what this call copied *)
all_deployed_agents_only_new(deployed_agents, skipped_agents) == deployed_agents

(* deployed_agents + skipped_agents, deployed_skills + skipped_skills *)
all_deployed_agents(deployed_agents, skipped_agents) == deployed_agents \o skipped_agents

all_deployed_skills(deployed_skills, skipped_skills) == deployed_skills \o skipped_skills

(* deploy without the check of the project path *)
path_exists_unchecked(f) == TRUE

path_exists(f) == f.exists

NoRun == [deployed |-> << >>, skipped |-> << >>, warnings |-> << >>]

(* deploy returns True or False, or leaves by the ValueError of
   load_profile or by the error of a copy ("raised"). *)
deploy(f, cat, t, profile_name, force) ==
  IF ~path_exists(f)
  THEN [result |-> "false", fs |-> f, agents |-> NoRun, skills |-> NoRun]
  ELSE LET lp == load_profile(profile_name)
       IN  IF lp.raised
           THEN [result |-> "raised", fs |-> f, agents |-> NoRun, skills |-> NoRun]
           ELSE LET profile == lp.profile[1]
                    a == deploy_agents(f, cat, profile, force)
                    s == deploy_skills(a.fs, cat, profile, force)
                    all == all_deployed_agents(a.deployed, a.skipped)
                    g == generate_organizer(s.fs, profile, all)
                    c == create_project_profile(g, t, profile_name, all,
                                                all_deployed_skills(s.deployed, s.skipped))
                    m == setup_metrics_directory(c)
                IN  [result |-> IF s.raised THEN "raised" ELSE "true",
                     fs |-> IF s.raised THEN s.fs ELSE m,
                     agents |-> [deployed |-> a.deployed, skipped |-> a.skipped,
                                 warnings |-> a.warnings],
                     skills |-> [deployed |-> s.deployed, skipped |-> s.skipped,
                                 warnings |-> s.warnings]]

(* sync_project re-deploying without force *)
sync_project_no_force(f, cat, t) ==
  IF f.profile_file = << >>
  THEN [called |-> << >>,
        out |-> [result |-> "false", fs |-> f, agents |-> NoRun, skills |-> NoRun]]
  ELSE LET project_profile == yaml_safe_load(f.profile_file[1])
           profile_name == project_profile["profile"]
       IN  [called |-> << <<profile_name, FALSE>> >>,
            out |-> deploy(f, cat, t, profile_name, FALSE)]

(* sync_project: result plus the profile name and force it handed to
   deploy (profile << >> when deploy was not reached). *)
sync_project(f, cat, t) ==
  IF f.profile_file = << >>
  THEN [called |-> << >>,
        out |-> [result |-> "false", fs |-> f, agents |-> NoRun, skills |-> NoRun]]
  ELSE LET project_profile == yaml_safe_load(f.profile_file[1])
           profile_name == project_profile["profile"]
       IN  [called |-> << <<profile_name, TRUE>> >>,
            out |-> deploy(f, cat, t, profile_name, TRUE)]

----------------------------------------------------------------------------
(* metrics_collector.py and weekly_reporter.py.  Time is counted in days.
   A timestamp string is [iso, day]: iso tells whether
   datetime.fromisoformat reads it.  A line of feedback.jsonl is
   [kind, obj]: kind "json" is the text json.dumps(obj) writes, "text" is
   text json.loads rejects, "blank" is an empty line. *)

Outcomes == {"accepted", "rejected", "iteration"}

FeedbackAgents == {"python-pro"}

ProfileWindowDays == 30

TaskLimit == 200

isoformat(t) == [iso |-> TRUE, day |-> t]

(* error is "ValueError" for a string that is no ISO date *)
fromisoformat(string) ==
  [error |-> IF string.iso THEN "none" ELSE "ValueError", day |-> string.day]

json_dumps(obj) == [kind |-> "json", obj |-> obj]

json_loads(line) ==
  [error |-> IF line.kind = "json" THEN "none" ELSE "JSONDecodeError", obj |-> line.obj]

LogLines(f) == IF f.log = << >> THEN << >> ELSE f.log[1]

(* entry.get(key, default) *)
Get(entry, key, default) == IF key \in DOMAIN entry THEN entry[key] ELSE default

(* reason "" stands for None as well; --tokens stays at its default, which
   adds no key *)
log_feedback(f, t, agent, task, outcome, iterations, reason) ==
  LET entry == [ts |-> isoformat(t), agent |-> agent,
                task |-> SubSeq(task, 1, IF Len(task) < TaskLimit THEN Len(task) ELSE TaskLimit),
                outcome |-> outcome, iterations |-> iterations]
  IN  [f EXCEPT !.exists = TRUE,
                !.dirs = @ \cup {".claude", "metrics"},
                !.log = << LogLines(f) \o
                           << json_dumps(IF reason # "" THEN entry @@ [reason |-> reason]
                                         ELSE entry) >> >>]

Loaded(entries) == [error |-> "none", entries |-> entries]

Aborted(error) == [error |-> error, entries |-> << >>]

(* load_feedback of metrics_collector.py: nothing catches the errors of
   json.loads, entry["ts"] and datetime.fromisoformat *)
RECURSIVE load_feedback_loop_inclusive(_, _, _, _)
load_feedback_loop_inclusive(lines, cutoff, i, entries) ==
  IF i > Len(lines) THEN Loaded(entries)
  ELSE IF lines[i].kind = "blank" THEN load_feedback_loop_inclusive(lines, cutoff, i + 1, entries)
  ELSE LET parsed == json_loads(lines[i])
           entry == parsed.obj
       IN  IF parsed.error # "none" THEN Aborted(parsed.error)
           ELSE IF "ts" \notin DOMAIN entry THEN Aborted("KeyError")
           ELSE LET entry_time == fromisoformat(entry.ts)
                IN  IF entry_time.error # "none" THEN Aborted(entry_time.error)
                    ELSE load_feedback_loop_inclusive(lines, cutoff, i + 1,
                                                      IF entry_time.day >= cutoff
                                                      THEN Append(entries, entry) ELSE entries)

RECURSIVE load_feedback_loop(_, _, _, _)
load_feedback_loop(lines, cutoff, i, entries) ==
  IF i > Len(lines) THEN Loaded(entries)
  ELSE IF lines[i].kind = "blank" THEN load_feedback_loop(lines, cutoff, i + 1, entries)
  ELSE LET parsed == json_loads(lines[i])
           entry == parsed.obj
       IN  IF parsed.error # "none" THEN Aborted(parsed.error)
           ELSE IF "ts" \notin DOMAIN entry THEN Aborted("KeyError")
           ELSE LET entry_time == fromisoformat(entry.ts)
                IN  IF entry_time.error # "none" THEN Aborted(entry_time.error)
                    ELSE load_feedback_loop(lines, cutoff, i + 1,
                                            IF entry_time.day > cutoff
                                            THEN Append(entries, entry) ELSE entries)

load_feedback(f, t, days) ==
  IF f.log = << >> THEN Loaded(<< >>)
  ELSE load_feedback_loop(f.log[1], t - days, 1, << >>)

(* load_feedback of weekly_reporter.py: json.JSONDecodeError and KeyError
   skip the line, the ValueError of datetime.fromisoformat is not caught *)
RECURSIVE reporter_load_feedback_loop(_, _, _, _)
reporter_load_feedback_loop(lines, cutoff, i, entries) ==
  IF i > Len(lines) THEN Loaded(entries)
  ELSE IF lines[i].kind = "blank" THEN reporter_load_feedback_loop(lines, cutoff, i + 1, entries)
  ELSE LET parsed == json_loads(lines[i])
           entry == parsed.obj
       IN  IF parsed.error # "none" \/ "ts" \notin DOMAIN entry
           THEN reporter_load_feedback_loop(lines, cutoff, i + 1, entries)
           ELSE LET entry_time == fromisoformat(entry.ts)
                IN  IF entry_time.error # "none" THEN Aborted(entry_time.error)
                    ELSE reporter_load_feedback_loop(lines, cutoff, i + 1,
                                                     IF entry_time.day > cutoff
                                                     THEN Append(entries, entry) ELSE entries)

reporter_load_feedback(f, t, days) ==
  IF f.log = << >> THEN Loaded(<< >>)
  ELSE reporter_load_feedback_loop(f.log[1], t - days, 1, << >>)

(* round(num / den) as an integer, a half going to the even neighbour *)
round_ratio(num, den) ==
  LET q == num \div den
      r == num % den
  IN  IF 2 * r < den THEN q
      ELSE IF 2 * r > den THEN q + 1
      ELSE IF q % 2 = 0 THEN q ELSE q + 1

(* the rate cut off after its first decimal instead of rounded *)
round1_percent_floor(num, den) == (1000 * num) \div den

(* round((num / den) * 100, 1), in tenths of a percent *)
round1_percent(num, den) == round_ratio(1000 * num, den)

(* round(num / den, 2), in hundredths *)
round2(num, den) == round_ratio(100 * num, den)

NoReasons == [reason \in {} |-> 0]

NoAgents == [agent \in {} |-> 0]

(* the value of the defaultdict for an agent it has not seen *)
NewStats ==
  [total |-> 0, accepted |-> 0, rejected |-> 0, iterations |-> 0, total_iterations |-> 0,
   reasons |-> NoReasons]

(* counts[key] += 1 on a defaultdict(int) *)
Increment(counts, key) ==
  [k \in DOMAIN counts \cup {key} |->
     IF k = key THEN (IF key \in DOMAIN counts THEN counts[key] ELSE 0) + 1 ELSE counts[k]]

(* the body of the loop over the entries, the same in calculate_stats and
   calculate_agent_stats *)
count_entry(stats, entry) ==
  LET s == [stats EXCEPT !.total = @ + 1,
                         !.total_iterations = @ + Get(entry, "iterations", 1)]
  IN  IF entry.outcome = "accepted" THEN [s EXCEPT !.accepted = @ + 1]
      ELSE IF entry.outcome = "rejected"
      THEN [s EXCEPT !.rejected = @ + 1,
                     !.reasons = IF Get(entry, "reason", "") # ""
                                 THEN Increment(@, entry.reason) ELSE @]
      ELSE IF entry.outcome = "iteration" THEN [s EXCEPT !.iterations = @ + 1]
      ELSE s

RECURSIVE count_entries(_, _, _)
count_entries(entries, i, agent_stats) ==
  IF i > Len(entries) THEN agent_stats
  ELSE LET agent == entries[i].agent
           stats == IF agent \in DOMAIN agent_stats THEN agent_stats[agent] ELSE NewStats
       IN  count_entries(entries, i + 1,
                         [a \in DOMAIN agent_stats \cup {agent} |->
                            IF a = agent THEN count_entry(stats, entries[i]) ELSE agent_stats[a]])

(* the second loop: the rates of one agent *)
with_rates(stats) ==
  [acceptance_rate |-> IF stats.total > 0 THEN round1_percent(stats.accepted, stats.total) ELSE 0,
   avg_iterations |-> IF stats.total > 0 THEN round2(stats.total_iterations, stats.total) ELSE 0]
  @@ stats

calculate_stats(entries) ==
  IF entries = << >> THEN [total |-> 0, agents |-> NoAgents]
  ELSE LET agent_stats == count_entries(entries, 1, NoAgents)
       IN  [total |-> Len(entries),
            period_days |-> 7,
            agents |-> [a \in DOMAIN agent_stats |-> with_rates(agent_stats[a])]]

(* calculate_agent_stats of weekly_reporter.py *)
calculate_agent_stats(entries) ==
  LET stats == count_entries(entries, 1, NoAgents)
  IN  [a \in DOMAIN stats |-> with_rates(stats[a])]

RECURSIVE SumOver(_, _)
SumOver(agents, field) ==
  IF DOMAIN agents = {} THEN 0
  ELSE LET a == CHOOSE x \in DOMAIN agents : TRUE
       IN  agents[a][field] + SumOver([x \in DOMAIN agents \ {a} |-> agents[x]], field)

(* update_project_profile adding the new counts to the stored ones *)
update_project_profile_incremental(f, t) ==
  IF f.profile_file = << >> THEN [error |-> "none", fs |-> f]
  ELSE LET doc == f.profile_file[1]
           profile == yaml_safe_load(doc)
           loaded == load_feedback(f, t, ProfileWindowDays)
           stats == calculate_stats(loaded.entries)
           old == profile["metrics"]
           total_accepted == old.accepted + SumOver(stats.agents, "accepted")
           total_tasks == old.total_tasks + stats.total
           metrics == [total_tasks |-> total_tasks,
                       accepted |-> total_accepted,
                       rejected |-> old.rejected + SumOver(stats.agents, "rejected"),
                       acceptance_rate |-> IF total_tasks > 0
                                           THEN round1_percent(total_accepted, total_tasks) ELSE 0,
                       last_updated |-> t]
           updated == [profile EXCEPT !["metrics"] = metrics]
       IN  IF loaded.error # "none" THEN [error |-> loaded.error, fs |-> f]
           ELSE [error |-> "none",
                 fs |-> [f EXCEPT !.profile_file =
                                    << yaml_dump([i \in DOMAIN doc |-> doc[i][1]], updated) >>]]

(* update_project_profile returns, or leaves by the error of load_feedback
   with the file as it was *)
update_project_profile(f, t) ==
  IF f.profile_file = << >> THEN [error |-> "none", fs |-> f]
  ELSE LET doc == f.profile_file[1]
           profile == yaml_safe_load(doc)
           loaded == load_feedback(f, t, ProfileWindowDays)
           stats == calculate_stats(loaded.entries)
           total_accepted == SumOver(stats.agents, "accepted")
           total_tasks == stats.total
           metrics == [total_tasks |-> total_tasks,
                       accepted |-> total_accepted,
                       rejected |-> SumOver(stats.agents, "rejected"),
                       acceptance_rate |-> IF total_tasks > 0
                                           THEN round1_percent(total_accepted, total_tasks) ELSE 0,
                       last_updated |-> t]
           updated == [profile EXCEPT !["metrics"] = metrics]
       IN  IF loaded.error # "none" THEN [error |-> loaded.error, fs |-> f]
           ELSE [error |-> "none",
                 fs |-> [f EXCEPT !.profile_file =
                                    << yaml_dump([i \in DOMAIN doc |-> doc[i][1]], updated) >>]]

(* print_summary, as far as it computes: the entries it loads and their
   statistics *)
print_summary(f, t, days) ==
  LET loaded == load_feedback(f, t, days)
  IN  [error |-> loaded.error, entries |-> loaded.entries,
       stats |-> calculate_stats(loaded.entries)]

(* generate_project_report of weekly_reporter.py, without the fields it
   copies from the project profile *)
generate_project_report(f, t, days) ==
  LET loaded == reporter_load_feedback(f, t, days)
      agent_stats == calculate_agent_stats(loaded.entries)
      total_tasks == Len(loaded.entries)
      total_accepted == SumOver(agent_stats, "accepted")
  IN  [error |-> loaded.error, entries |-> loaded.entries,
       period_days |-> days,
       total_tasks |-> total_tasks,
       total_accepted |-> total_accepted,
       total_rejected |-> SumOver(agent_stats, "rejected"),
       overall_acceptance_rate |-> IF total_tasks > 0
                                   THEN round1_percent(total_accepted, total_tasks) ELSE 0,
       agent_stats |-> agent_stats]

(* the choices of --outcome; "" stands for the option not given *)
parse_args_any_outcome(args) == TRUE

parse_args(args) == args.outcome \in Outcomes \cup {""}

(* the script run with --agent/--task/--outcome: argparse leaves with
   "usage" on an outcome outside its choices, and without all three
   options the help is printed *)
main_log(f, t, args) ==
  IF ~parse_args(args) THEN [result |-> "usage", fs |-> f]
  ELSE IF args.agent # "" /\ args.task # "" /\ args.outcome # ""
  THEN [result |-> "logged",
        fs |-> log_feedback(f, t, args.agent, args.task, args.outcome, args.iterations,
                            args.reason)]
  ELSE [result |-> "help", fs |-> f]

----------------------------------------------------------------------------
(* project_profiler.py.  A profile is the dictionary yaml.safe_load gives,
   with the keys match_profiles reads; "profiles" is the list of the items
   of the dictionary load_profiles fills, in the order of its glob.  The
   lists of the analysis are sets: match_profiles makes sets of them or
   tests membership only.  A reason is the text appended, with the tokens
   it joins. *)

MatcherProfile(name, indicators) ==
  [name |-> name, tech_patterns |-> [indicators |-> indicators]]

(* the agents and skills keys of a profile file, as recommend reads them *)
Deploys(core, optional, skills) ==
  [agents |-> [core |-> core, optional |-> optional], skills |-> skills]

(* catalog/profiles/*.yaml; "minimal" has a name only, "fullstack" no
   optional agents, "trading-fintech" no skills *)
ProfileFiles ==
  << MatcherProfile("ai-ml", <<"anthropic", "trading">>)
       @@ Deploys(<<"ai-engineer">>, <<"python-pro">>, <<"prompt-design">>),
     MatcherProfile("fullstack", <<"react", "fastapi">>)
       @@ [agents |-> [core |-> <<"ui-designer", "python-pro">>],
           skills |-> <<"react-best-practices">>],
     [name |-> "minimal"],
     MatcherProfile("nextjs-frontend", <<"react">>)
       @@ Deploys(<<"ui-designer">>, << >>, <<"react-best-practices">>),
     MatcherProfile("python-backend", <<"fastapi">>)
       @@ Deploys(<<"python-pro", "ui-designer">>, <<"python-pro">>,
                  <<"tdd-workflow", "react-best-practices">>),
     MatcherProfile("trading-fintech", <<"ccxt", "trading", "crypto">>)
       @@ [agents |-> [core |-> <<"python-pro">>, optional |-> <<"quant-analyst">>]] >>

Reverse(seq) == [i \in DOMAIN seq |-> seq[Len(seq) + 1 - i]]

NoKeys == [k \in {} |-> << >>]

(* a file of the profiles directory: the document yaml.safe_load returns,
   or text it raises on *)
YamlFile(doc) == [parses |-> TRUE, doc |-> doc]

BrokenFile == [parses |-> FALSE, doc |-> NoKeys]

YamlFiles(docs) == [i \in DOMAIN docs |-> YamlFile(docs[i])]

InsertAt(seq, i, x) == SubSeq(seq, 1, i - 1) \o << x >> \o SubSeq(seq, i, Len(seq))

(* the directories the glob may walk: the six profiles in either order, the
   same with a file that is not YAML or a document without a name among
   them, and a directory without profiles *)
ProfileDirs ==
  { YamlFiles(ProfileFiles), YamlFiles(Reverse(ProfileFiles)),
    InsertAt(YamlFiles(ProfileFiles), 2, BrokenFile),
    InsertAt(YamlFiles(ProfileFiles), 3,
             YamlFile([description |-> "draft"] @@ Deploys(<<"python-pro">>, << >>, << >>))),
    << >> }

(* profiles[key] = profile: a dictionary keeps the place of a key it has *)
SetItem(profiles, key, profile) ==
  IF \E k \in DOMAIN profiles : profiles[k][1] = key
  THEN [k \in DOMAIN profiles |-> IF profiles[k][1] = key THEN <<key, profile>> ELSE profiles[k]]
  ELSE Append(profiles, <<key, profile>>)

(* the loop of load_profiles from file i on: yaml.safe_load and
   profile["name"] raise, and nothing catches either *)
RECURSIVE load_profiles_loop(_, _, _)
load_profiles_loop(files, i, profiles) ==
  IF i > Len(files) THEN [error |-> FALSE, profiles |-> profiles]
  ELSE IF ~files[i].parses THEN [error |-> TRUE, profiles |-> << >>]
  ELSE IF "name" \notin DOMAIN files[i].doc THEN [error |-> TRUE, profiles |-> << >>]
  ELSE load_profiles_loop(files, i + 1, SetItem(profiles, files[i].doc.name, files[i].doc))

(* load_profiles on the files in the order the glob yields them *)
load_profiles(files) == load_profiles_loop(files, 1, << >>)

(* one indicator matched counts as much as several *)
indicator_points_flat(matched_indicators) == 20

indicator_points(matched_indicators) == Cardinality(matched_indicators) * 20

Reason(text, tokens) == [text |-> text, tokens |-> tokens]

NoBonus == [points |-> 0, reasons |-> << >>]

(* the chain of branches with one bonus for a trading project, however
   many trading indicators it has *)
framework_bonus_flat_trading(name, analysis) ==
  LET indicators == analysis.indicators
  IN  IF name = "nextjs-frontend" /\ "Next.js" \in analysis.frameworks
      THEN [points |-> 50, reasons |-> << Reason("Next.js detected", {}) >>]
      ELSE IF name = "python-backend" /\ "Python" \in analysis.tech_stack
      THEN IF analysis.frameworks \cap {"FastAPI", "Flask", "Django"} # {}
           THEN [points |-> 40, reasons |-> << Reason("Python web framework", {}) >>]
           ELSE [points |-> 20, reasons |-> << Reason("Python project", {}) >>]
      ELSE IF name = "trading-fintech"
      THEN LET trading_indicators == {"ccxt", "alpaca", "trading", "arbitrage", "kalshi",
                                      "polymarket", "crypto"}
               matched_trading == indicators \cap trading_indicators
           IN  IF matched_trading # {}
               THEN [points |-> 30,
                     reasons |-> << Reason("trading", matched_trading) >>]
               ELSE NoBonus
      ELSE IF name = "ai-ml"
      THEN LET ai_indicators == {"anthropic", "openai", "langchain", "llm", "embedding"}
           IN  IF indicators \cap ai_indicators # {}
               THEN [points |-> 50, reasons |-> << Reason("AI/ML indicators", {}) >>]
               ELSE NoBonus
      ELSE IF name = "fullstack"
      THEN IF "Next.js" \in analysis.frameworks /\ Get(analysis.structure, "has_db", FALSE)
           THEN [points |-> 45, reasons |-> << Reason("fullstack patterns", {}) >>]
           ELSE NoBonus
      ELSE NoBonus

(* the chain of branches on the profile name *)
framework_bonus(name, analysis) ==
  LET indicators == analysis.indicators
  IN  IF name = "nextjs-frontend" /\ "Next.js" \in analysis.frameworks
      THEN [points |-> 50, reasons |-> << Reason("Next.js detected", {}) >>]
      ELSE IF name = "python-backend" /\ "Python" \in analysis.tech_stack
      THEN IF analysis.frameworks \cap {"FastAPI", "Flask", "Django"} # {}
           THEN [points |-> 40, reasons |-> << Reason("Python web framework", {}) >>]
           ELSE [points |-> 20, reasons |-> << Reason("Python project", {}) >>]
      ELSE IF name = "trading-fintech"
      THEN LET trading_indicators == {"ccxt", "alpaca", "trading", "arbitrage", "kalshi",
                                      "polymarket", "crypto"}
               matched_trading == indicators \cap trading_indicators
           IN  IF matched_trading # {}
               THEN [points |-> 30 * Cardinality(matched_trading),
                     reasons |-> << Reason("trading", matched_trading) >>]
               ELSE NoBonus
      ELSE IF name = "ai-ml"
      THEN LET ai_indicators == {"anthropic", "openai", "langchain", "llm", "embedding"}
           IN  IF indicators \cap ai_indicators # {}
               THEN [points |-> 50, reasons |-> << Reason("AI/ML indicators", {}) >>]
               ELSE NoBonus
      ELSE IF name = "fullstack"
      THEN IF "Next.js" \in analysis.frameworks /\ Get(analysis.structure, "has_db", FALSE)
           THEN [points |-> 45, reasons |-> << Reason("fullstack patterns", {}) >>]
           ELSE NoBonus
      ELSE NoBonus

(* the body of the loop over the profiles, up to the test of the score *)
profile_score(name, profile, analysis) ==
  LET deps_set == analysis.dependencies
      indicators == analysis.indicators
      profile_indicators == SeqToSet(Get(Get(profile, "tech_patterns", NoKeys), "indicators", << >>))
      matched_indicators == indicators \cap profile_indicators
      bonus == framework_bonus(name, analysis)
  IN  [score |-> (IF matched_indicators # {} THEN indicator_points(matched_indicators) ELSE 0)
                 + 15 * Cardinality(profile_indicators \cap deps_set)
                 + bonus.points,
       reasons |-> (IF matched_indicators # {}
                    THEN << Reason("indicators", matched_indicators) >> ELSE << >>)
                   \o bonus.reasons]

(* the score appended as it is *)
min_first(a, b) == a

min(a, b) == IF a < b THEN a ELSE b

RECURSIVE match_loop(_, _, _, _)
match_loop(analysis, profiles, i, matches) ==
  IF i > Len(profiles) THEN matches
  ELSE LET name == profiles[i][1]
           scored == profile_score(name, profiles[i][2], analysis)
       IN  match_loop(analysis, profiles, i + 1,
                      IF scored.score > 0
                      THEN Append(matches, [profile |-> name, score |-> min(scored.score, 100),
                                            reasons |-> scored.reasons])
                      ELSE matches)

(* m put before the first match of sorted that scores no more than it *)
RECURSIVE insert_before_equal(_, _)
insert_before_equal(sorted, m) ==
  IF sorted = << >> THEN << m >>
  ELSE IF Head(sorted).score > m.score
       THEN << Head(sorted) >> \o insert_before_equal(Tail(sorted), m)
       ELSE << m >> \o sorted

(* matches[i..] put one by one into done *)
RECURSIVE sort_before_equal(_, _, _)
sort_before_equal(matches, i, done) ==
  IF i > Len(matches) THEN done
  ELSE sort_before_equal(matches, i + 1, insert_before_equal(done, matches[i]))

(* sorted(matches, key=score)[::-1]: the ascending sort turned round,
   which turns round the matches of equal score too *)
sorted_ascending_reversed(matches) == sort_before_equal(matches, 1, << >>)

(* m put behind the matches of sorted that score as much or more *)
RECURSIVE insert_by_score(_, _)
insert_by_score(sorted, m) ==
  IF sorted = << >> THEN << m >>
  ELSE IF Head(sorted).score >= m.score
       THEN << Head(sorted) >> \o insert_by_score(Tail(sorted), m)
       ELSE << m >> \o sorted

RECURSIVE sort_by_score(_, _, _)
sort_by_score(matches, i, done) ==
  IF i > Len(matches) THEN done
  ELSE sort_by_score(matches, i + 1, insert_by_score(done, matches[i]))

(* sorted(matches, key=lambda x: x["score"], reverse=True): a stable sort *)
sorted_by_score_reverse(matches) == sort_by_score(matches, 1, << >>)

match_profiles(analysis, profiles) ==
  sorted_by_score_reverse(match_loop(analysis, profiles, 1, << >>))

(* profiles.get(name, {}) *)
profiles_get(profiles, name) ==
  IF \E k \in DOMAIN profiles : profiles[k][1] = name
  THEN profiles[CHOOSE k \in DOMAIN profiles : profiles[k][1] = name][2]
  ELSE NoKeys

(* what recommend returns without its error key; None is the empty
   sequence *)
Recommendation(matches, primary, confidence, agents, skills) ==
  [profile_matches |-> matches, primary_profile |-> primary, confidence |-> confidence,
   recommended_agents |-> agents, recommended_skills |-> skills]

(* the recommendation read off the last match of the list *)
recommendation_from_last(matches, profiles) ==
  IF matches # << >>
  THEN LET top == matches[Len(matches)]
           top_profile == profiles_get(profiles, top.profile)
           agents == Get(top_profile, "agents", NoKeys)
       IN  Recommendation(matches, << top.profile >>, top.score,
                          Get(agents, "core", << >>) \o Get(agents, "optional", << >>),
                          Get(top_profile, "skills", << >>))
  ELSE Recommendation(matches, << >>, 0, << >>, << >>)

(* recommend from the matches on *)
recommendation(matches, profiles) ==
  IF matches # << >>
  THEN LET top_profile == profiles_get(profiles, matches[1].profile)
           agents == Get(top_profile, "agents", NoKeys)
       IN  Recommendation(matches, << matches[1].profile >>, matches[1].score,
                          Get(agents, "core", << >>) \o Get(agents, "optional", << >>),
                          Get(top_profile, "skills", << >>))
  ELSE Recommendation(matches, << >>, 0, << >>, << >>)

(* recommend on a project whose analysis analyze_project returns: the
   error key for a path that does not exist, the exception of
   load_profiles passed on *)
recommend(f, files, analysis) ==
  IF ~f.exists THEN [result |-> "error", profiles |-> << >>, value |-> << >>]
  ELSE LET loaded == load_profiles(files)
       IN  IF loaded.error THEN [result |-> "raised", profiles |-> << >>, value |-> << >>]
           ELSE [result |-> "returned", profiles |-> loaded.profiles,
                 value |-> << recommendation(match_profiles(analysis, loaded.profiles),
                                             loaded.profiles) >>]

(* deployer.py --auto: the profile deploy is called with, or exit status 1 *)
auto_profile(f, files, analysis) ==
  LET result == recommend(f, files, analysis)
  IN  IF result.result = "raised" THEN [result |-> "raised", profile |-> << >>]
      ELSE IF result.result = "error" THEN [result |-> "exit 1", profile |-> << >>]
      ELSE IF result.value[1].primary_profile = << >> THEN [result |-> "exit 1", profile |-> << >>]
      ELSE [result |-> "deploy", profile |-> result.value[1].primary_profile]

----------------------------------------------------------------------------
(* check_new_skills.py.  An external command ends with exit status 0 and
   its output ("ok"), with another exit status ("nonzero"), or
   subprocess.run raises TimeoutExpired ("timeout").  A directory of the
   mirror is a sequence of length 0 (absent) or 1 (the set of the names of
   its files); README.md is its content, NoFile when absent. *)

SKILLS_REPOS == << <<"anthropics/skills", "anthropic">>, <<"vercel-labs/agent-skills", "vercel">> >>

DirsToSync == {"agents", "skills"}

CommandOutcomes == {"ok", "nonzero", "timeout"}

(* what gh api prints for repos/<repo>/contents/skills *)
Listing(repo) ==
  IF repo = "anthropics/skills"
  THEN << [name |-> "tdd-workflow", type |-> "dir"], [name |-> "pdf", type |-> "dir"],
          [name |-> "README.md", type |-> "file"] >>
  ELSE << [name |-> "react-best-practices", type |-> "dir"],
          [name |-> "tdd-workflow", type |-> "dir"] >>

(* the answers of GitHub in one run: the clone, the two listings (an
   outcome and whether the output is the JSON list), the commit query *)
Remotes ==
  [clone : CommandOutcomes,
   listing : [{"anthropics/skills", "vercel-labs/agent-skills"} -> CommandOutcomes \X BOOLEAN],
   commit : CommandOutcomes]

MirrorTrees ==
  [dirs : [DirsToSync -> {<< >>, << {"planner.md"} >>, << {"planner.md", "SKILL.md"} >>}],
   readme : {NoFile, 1}]

(* the trees of the repository and of the mirror: "skills" is the same in
   all of them, "agents" and README.md vary *)
MirrorChoices == { t \in MirrorTrees : t.dirs["skills"] = << {"planner.md", "SKILL.md"} >> }

get_current_skills(cat) ==
  { <<source, s>> : source \in {"vercel", "anthropic"}, s \in SkillNames }
    \ { pair \in {"vercel", "anthropic"} \X SkillNames :
           cat.skills[pair[2]][pair[1]].kind # "dir" }

RECURSIVE dir_names(_)
dir_names(contents) ==
  IF contents = << >> THEN << >>
  ELSE (IF contents[1].type = "dir" THEN << contents[1].name >> ELSE << >>)
         \o dir_names(Tail(contents))

(* check_github_repo: every exception, the timeout and the error of
   json.loads among them, is logged and gives the empty list *)
check_github_repo(remote, repo) ==
  LET out == remote.listing[repo]
  IN  IF out[1] = "timeout" THEN [names |-> << >>, log |-> << "Error checking " \o repo >>]
      ELSE IF out[1] = "nonzero" THEN [names |-> << >>, log |-> << >>]
      ELSE IF ~out[2] THEN [names |-> << >>, log |-> << "Error checking " \o repo >>]
      ELSE [names |-> dir_names(Listing(repo)), log |-> << >>]

CommitSha == "3f2a9c1d5e"

get_repo_last_commit(remote) ==
  IF remote.commit = "ok" THEN SubSeq(CommitSha, 1, 7) ELSE ""

(* sync_full_repo of everything-claude-code: mirror is the directory of the
   catalog, clone the tree of the repository.  subprocess.run of git clone
   stands outside any try block, so its TimeoutExpired leaves the function;
   another exit status gives the status "error".  A directory of the
   repository replaces the one of the mirror, README.md is copied over. *)
sync_full_repo(mirror, remote, clone) ==
  IF remote.clone = "timeout"
  THEN [raised |-> TRUE, mirror |-> mirror, log |-> << >>,
        result |-> [status |-> "none", commit |-> "", changes |-> {}]]
  ELSE IF remote.clone # "ok"
  THEN [raised |-> FALSE, mirror |-> mirror, log |-> << "Failed to clone" >>,
        result |-> [status |-> "error", commit |-> "", changes |-> {}]]
  ELSE LET new_files(d) == IF clone.dirs[d] # << >> /\ mirror.dirs[d] # << >>
                           THEN { <<d, f>> : f \in clone.dirs[d][1] \ mirror.dirs[d][1] }
                           ELSE {}
           changes == UNION { new_files(d) : d \in DirsToSync }
                        \cup (IF clone.readme # NoFile /\ clone.readme # mirror.readme
                              THEN { <<"README.md">> } ELSE {})
       IN  [raised |-> FALSE,
            mirror |-> [dirs |-> [d \in DirsToSync |->
                                   IF clone.dirs[d] # << >> THEN clone.dirs[d] ELSE mirror.dirs[d]],
                        readme |-> IF clone.readme # NoFile THEN clone.readme ELSE mirror.readme],
            log |-> << "Synced" >>,
            result |-> [status |-> "synced", commit |-> get_repo_last_commit(remote),
                        changes |-> changes]]

RECURSIVE check_new_skills_loop(_, _, _, _)
check_new_skills_loop(cat, remote, i, st) ==
  IF i > Len(SKILLS_REPOS) THEN st
  ELSE LET repo == SKILLS_REPOS[i][1]
           source_name == SKILLS_REPOS[i][2]
           listed == check_github_repo(remote, repo)
           new == SelectSeq(listed.names,
                            LAMBDA n : <<source_name, n>> \notin get_current_skills(cat))
       IN  check_new_skills_loop(cat, remote, i + 1,
             [found |-> st.found \o [k \in DOMAIN new |-> [source |-> source_name,
                                                             name |-> new[k], repo |-> repo]],
              log |-> st.log \o listed.log])

check_new_skills(cat, remote) ==
  check_new_skills_loop(cat, remote, 1, [found |-> << >>, log |-> << >>])

(* main: the report written to sync_report.json (none when the run ends in
   an exception), the exit status, the mirror and the lines logged *)
main_sync(cat, mirror, remote, clone) ==
  LET synced == sync_full_repo(mirror, remote, clone)
      checked == check_new_skills(cat, remote)
  IN  IF synced.raised
      THEN [result |-> "raised", mirror |-> synced.mirror, report |-> << >>, exit |-> 1,
            log |-> synced.log]
      ELSE [result |-> "returned", mirror |-> synced.mirror,
            report |-> << [new_skills |-> checked.found, synced_repos |-> << synced.result >>] >>,
            exit |-> Len(checked.found) + Cardinality(synced.result.changes),
            log |-> synced.log \o checked.log]

----------------------------------------------------------------------------
(* The record of the most recent call *)

NoSummary == [op |-> "none", profile |-> "", force |-> FALSE, result |-> "none", release |-> 0]

Summary(l) ==
  [op |-> l.op, profile |-> l.profile, force |-> l.force, result |-> l.result, release |-> l.release]

NoCall ==
  [op |-> "none", profile |-> "", force |-> FALSE, result |-> "none", release |-> 0,
   at |-> 0, agents |-> NoRun, skills |-> NoRun, pre |-> << >>, prev |-> NoSummary,
   input |-> << >>, value |-> << >>]

CallRecord(op, profile_name, force, out) ==
  [op |-> op, profile |-> profile_name, force |-> force, result |-> out.result,
   release |-> release, at |-> now, agents |-> out.agents, skills |-> out.skills,
   pre |-> << fs >>, prev |-> Summary(last), input |-> << >>, value |-> << >>]

----------------------------------------------------------------------------
(* Actions *)

Init ==
  /\ fs = EmptyFs
  /\ release = 1
  /\ now = 0
  /\ last = NoCall

(* the project directory is created (by the user) *)
CreateProject ==
  /\ ~fs.exists
  /\ fs' = [fs EXCEPT !.exists = TRUE]
  /\ last' = NoCall
  /\ UNCHANGED <<release, now>>

(* the user writes or edits .claude/agents/<a>.md by hand *)
EditAgent(a, c) ==
  /\ fs.exists
  /\ fs.agents[a] # c
  /\ fs' = [fs EXCEPT !.dirs = @ \cup {".claude", "agents"}, !.agents[a] = c]
  /\ last' = NoCall
  /\ UNCHANGED <<release, now>>

(* the user adds notes.md to .claude/skills/<s>/ (creating the directory
   when there is none) *)
EditSkill(s, c) ==
  /\ fs.exists
  /\ fs' = [fs EXCEPT !.dirs = @ \cup {".claude", "skills"},
                      !.skills[s] = << [(IF @ = << >> THEN EmptyTree ELSE @[1])
                                          EXCEPT !["notes.md"] = c] >>]
  /\ fs' # fs
  /\ last' = NoCall
  /\ UNCHANGED <<release, now>>

(* the catalog directory moves to its next release *)
CatalogUpdate ==
  /\ release < Len(Releases)
  /\ release' = release + 1
  /\ last' = NoCall
  /\ UNCHANGED <<fs, now>>

(* time passes between two calls *)
Tick ==
  /\ now < MaxTime
  /\ now' = now + 1
  /\ UNCHANGED <<fs, release, last>>

Deploy(profile_name, force) ==
  LET out == deploy(fs, Catalog, now, profile_name, force)
  IN  /\ fs' = out.fs
      /\ last' = CallRecord("deploy", profile_name, force, out)
      /\ UNCHANGED <<release, now>>

Sync ==
  LET r == sync_project(fs, Catalog, now)
  IN  /\ fs' = r.out.fs
      /\ last' = CallRecord("sync", IF r.called = << >> THEN "" ELSE r.called[1][1],
                            r.called # << >>, r.out)
      /\ UNCHANGED <<release, now>>

LogFeedback(agent, outcome) ==
  /\ Len(LogLines(fs)) < MaxLog
  /\ fs' = log_feedback(fs, now, agent, "fix login", outcome, 1, "")
  /\ last' = NoCall
  /\ UNCHANGED <<release, now>>

(* the script run with --update-profile *)
UpdateMetrics ==
  LET out == update_project_profile(fs, now)
  IN  /\ fs' = out.fs
      /\ last' = [NoCall EXCEPT !.op = "update_profile",
                                !.result = IF out.error = "none" THEN "returned" ELSE "raised",
                                !.at = now, !.pre = << fs >>]
      /\ UNCHANGED <<release, now>>

(* Reconciliation of the project against the catalog: the user's edits,
   catalog releases, deploy and sync. *)
Next ==
  \/ CreateProject
  \/ \E a \in AgentNames, c \in LocalContents : EditAgent(a, c)
  \/ \E s \in SkillNames, c \in LocalContents : EditSkill(s, c)
  \/ CatalogUpdate
  \/ \E p \in RequestedProfiles, force \in BOOLEAN : Deploy(p, force)
  \/ Sync

Spec == Init /\ [][Next]_vars

(* The project-state record over time: deploy and sync with the clock
   running, the feedback log growing and the metrics being refreshed. *)
NextState ==
  \/ \E c \in LocalContents : EditAgent("python-pro", c)
  \/ Tick
  \/ \E p \in DOMAIN Profiles, force \in BOOLEAN : Deploy(p, force)
  \/ Sync
  \/ \E a \in FeedbackAgents, o \in Outcomes : LogFeedback(a, o)
  \/ UpdateMetrics

SpecState == Init /\ [][NextState]_vars

----------------------------------------------------------------------------
(* The feedback store: the script of metrics_collector.py run to log an
   event and to refresh the metrics of the project profile. *)

(* most lines the log gets *)
MaxEvents == 2

(* most times a window of ProfileWindowDays passes *)
MaxMonths == 1

RECURSIVE Repeat(_, _)
Repeat(text, n) == IF n = 0 THEN "" ELSE text \o Repeat(text, n - 1)

(* command lines: a short task, a task of 200 and one of 201 characters,
   an outcome outside the choices, and no task *)
CliInputs ==
  { [agent |-> "python-pro", task |-> "fix login", outcome |-> "accepted",
     iterations |-> 1, reason |-> ""],
    [agent |-> "python-pro", task |-> Repeat("ab", 100) \o "c", outcome |-> "rejected",
     iterations |-> 2, reason |-> "wrong approach"],
    [agent |-> "ui-designer", task |-> Repeat("ab", 100), outcome |-> "iteration",
     iterations |-> 3, reason |-> ""],
    [agent |-> "python-pro", task |-> "fix login", outcome |-> "abandoned",
     iterations |-> 1, reason |-> ""],
    [agent |-> "python-pro", task |-> "", outcome |-> "accepted",
     iterations |-> 1, reason |-> ""] }

LogFeedbackCli(args) ==
  LET out == main_log(fs, now, args)
  IN  /\ Len(LogLines(fs)) < MaxEvents
      /\ fs' = out.fs
      /\ last' = [NoCall EXCEPT !.op = "log_feedback", !.result = out.result, !.at = now,
                                !.pre = << fs >>, !.input = << args >>]
      /\ UNCHANGED <<release, now>>

(* a line that is no JSON gets into the log: a write cut short, or an edit
   by hand *)
BrokenLine ==
  /\ fs.log # << >>
  /\ Len(LogLines(fs)) < MaxEvents
  /\ fs' = [fs EXCEPT !.log = << @[1] \o << [kind |-> "text", obj |-> [raw |-> "{"]] >> >>]
  /\ last' = NoCall
  /\ UNCHANGED <<release, now>>

(* as many days pass as the window of update_project_profile is long *)
MonthPasses ==
  /\ now < ProfileWindowDays * MaxMonths
  /\ now' = now + ProfileWindowDays
  /\ UNCHANGED <<fs, release, last>>

NextFeedback ==
  \/ \E args \in CliInputs : LogFeedbackCli(args)
  \/ BrokenLine
  \/ MonthPasses
  \/ Deploy("python-backend", FALSE)
  \/ UpdateMetrics

SpecFeedback == Init /\ [][NextFeedback]_vars

----------------------------------------------------------------------------
(* Reading the log: print_summary of metrics_collector.py and
   generate_project_report of weekly_reporter.py on a log file as events of
   several days, lines that are no events and empty lines have left it. *)

(* most lines of the log that is read *)
MaxLines == 3

Today == ProfileWindowDays

(* --days *)
WindowChoices == {1, 2, 7}

Event(day, agent, outcome, iterations) ==
  json_dumps([ts |-> isoformat(day), agent |-> agent, task |-> "fix login",
              outcome |-> outcome, iterations |-> iterations])

EventWithReason(day, agent, outcome, iterations, reason) ==
  json_dumps([ts |-> isoformat(day), agent |-> agent, task |-> "fix login",
              outcome |-> outcome, iterations |-> iterations, reason |-> reason])

(* the lines a log is made of: events of today and of the two days before,
   text that is no JSON, an object without "ts", an object whose "ts" is no
   date, and the empty line *)
LineChoices ==
  { Event(Today, "python-pro", "accepted", 1),
    EventWithReason(Today, "python-pro", "rejected", 2, "wrong approach"),
    EventWithReason(Today, "python-pro", "accepted", 1, "looks fine"),
    Event(Today, "ui-designer", "rejected", 1),
    Event(Today - 1, "ui-designer", "iteration", 3),
    Event(Today - 2, "python-pro", "accepted", 1),
    [kind |-> "text", obj |-> [raw |-> "{"]],
    json_dumps([agent |-> "python-pro", outcome |-> "accepted"]),
    json_dumps([ts |-> [iso |-> FALSE, day |-> 0], agent |-> "python-pro",
                outcome |-> "accepted"]),
    [kind |-> "blank", obj |-> [raw |-> ""]] }

InitLog ==
  /\ \E n \in 0..MaxLines : \E lines \in [1..n -> LineChoices] :
       fs = [EmptyFs EXCEPT !.exists = TRUE, !.dirs = {".claude", "metrics"},
                            !.log = << lines >>]
  /\ release = 1
  /\ now = Today
  /\ last = NoCall

(* the script of metrics_collector.py run with --summary --days *)
PrintSummary(days) ==
  LET out == print_summary(fs, now, days)
  IN  /\ last' = [NoCall EXCEPT !.op = "summary",
                                !.result = IF out.error = "none" THEN "returned" ELSE "raised",
                                !.at = now, !.pre = << fs >>, !.input = << days >>,
                                !.value = << [entries |-> out.entries, error |-> out.error,
                                              agents |-> out.stats.agents,
                                              overall |-> << >>] >>]
      /\ UNCHANGED <<fs, release, now>>

(* the script of weekly_reporter.py run on the project with --days *)
WeeklyReport(days) ==
  LET out == generate_project_report(fs, now, days)
  IN  /\ last' = [NoCall EXCEPT !.op = "report",
                                !.result = IF out.error = "none" THEN "returned" ELSE "raised",
                                !.at = now, !.pre = << fs >>, !.input = << days >>,
                                !.value = << [entries |-> out.entries, error |-> out.error,
                                              agents |-> out.agent_stats,
                                              overall |-> << out.overall_acceptance_rate >>] >>]
      /\ UNCHANGED <<fs, release, now>>

NextLog ==
  \/ \E days \in WindowChoices : PrintSummary(days)
  \/ \E days \in WindowChoices : WeeklyReport(days)

SpecLog == InitLog /\ [][NextLog]_vars

----------------------------------------------------------------------------
(* Matching: match_profiles on an analysis of the project and the profiles
   of the catalog, and again after the analysis has gained an indicator. *)

IndicatorTokens == {"anthropic", "react", "fastapi", "ccxt", "trading", "crypto"}

Analyses ==
  [dependencies : SUBSET {"fastapi"},
   indicators : SUBSET IndicatorTokens,
   frameworks : SUBSET {"Next.js", "FastAPI"},
   tech_stack : SUBSET {"Python"},
   structure : [has_db : BOOLEAN]]

(* a project to analyze and the profiles directory of the catalog *)
Project(analysis, files) ==
  [NoCall EXCEPT !.op = "project",
                 !.input = << [analysis |-> analysis, files |-> files] >>]

(* analyze_project has returned analysis and load_profiles the profiles *)
Analyzed(analysis, profiles) ==
  [NoCall EXCEPT !.op = "analyze_project",
                 !.input = << [analysis |-> analysis, profiles |-> profiles] >>]

InitMatch ==
  /\ fs \in {EmptyFs, [EmptyFs EXCEPT !.exists = TRUE]}
  /\ release = 1
  /\ now = 0
  /\ \E analysis \in Analyses, files \in ProfileDirs :
       last = Project(analysis, files)

(* the first two calls of recommend: load_profiles, then analyze_project *)
LoadProfiles ==
  LET in == last.input[1]
      loaded == load_profiles(in.files)
  IN  /\ last.op = "project"
      /\ fs.exists
      /\ last' = IF loaded.error
                 THEN [last EXCEPT !.op = "load_profiles", !.result = "raised"]
                 ELSE Analyzed(in.analysis, loaded.profiles)
      /\ UNCHANGED <<fs, release, now>>

(* python project_profiler.py <project>, and deployer.py --auto up to its
   call of deploy *)
Recommend ==
  LET in == last.input[1]
      out == recommend(fs, in.files, in.analysis)
  IN  /\ last.op = "project"
      /\ last' = [last EXCEPT !.op = "recommend", !.result = out.result,
                              !.prev = [files |-> in.files, profiles |-> out.profiles,
                                        auto |-> auto_profile(fs, in.files, in.analysis)],
                              !.value = out.value]
      /\ UNCHANGED <<fs, release, now>>

MatchProfiles ==
  LET in == last.input[1]
  IN  /\ last.op = "analyze_project"
      /\ last' = [last EXCEPT !.op = "match_profiles", !.result = "returned",
                              !.value = << [matches |-> match_profiles(in.analysis, in.profiles),
                                            before |-> << >>, added |-> ""] >>]
      /\ UNCHANGED <<fs, release, now>>

(* the project gains an indicator and is matched again *)
MatchWithOneMore(token) ==
  LET in == last.input[1]
      more == [in.analysis EXCEPT !.indicators = @ \cup {token}]
  IN  /\ last.op = "match_profiles"
      /\ token \notin in.analysis.indicators
      /\ last' = [last EXCEPT !.op = "match_profiles_again",
                              !.input = << [analysis |-> more, profiles |-> in.profiles] >>,
                              !.value = << [matches |-> match_profiles(more, in.profiles),
                                            before |-> last.value[1].matches,
                                            added |-> token] >>]
      /\ UNCHANGED <<fs, release, now>>

NextMatch ==
  \/ LoadProfiles
  \/ Recommend
  \/ MatchProfiles
  \/ \E token \in IndicatorTokens : MatchWithOneMore(token)

SpecMatch == InitMatch /\ [][NextMatch]_vars

----------------------------------------------------------------------------
(* The daily catalog sync: one run of check_new_skills.py against the
   answers GitHub gives that day. *)

InitSync ==
  /\ fs = EmptyFs
  /\ release \in {1, 2}
  /\ now = 0
  /\ \E remote \in Remotes, mirror \in MirrorChoices, clone \in MirrorChoices :
       last = [NoCall EXCEPT !.op = "cron",
                             !.input = << [remote |-> remote, mirror |-> mirror,
                                           clone |-> clone] >>]

CatalogSync ==
  LET in == last.input[1]
  IN  /\ last.op = "cron"
      /\ LET out == main_sync(Catalog, in.mirror, in.remote, in.clone)
         IN  last' = [last EXCEPT !.op = "check_new_skills", !.result = out.result,
                                  !.release = release, !.value = << out >>]
      /\ UNCHANGED <<fs, release, now>>

NextSync == CatalogSync

SpecSync == InitSync /\ [][NextSync]_vars

----------------------------------------------------------------------------
(* The last call, as the properties below read it *)

(* the project tree the last call started from *)
Pre == last.pre[1]

LastCatalog == Releases[last.release]

LastProfile == Profiles[last.profile]

ProjectState(f) == yaml_safe_load(f.profile_file[1])

Succeeded(ops) == last.op \in ops /\ last.result = "true"

AgentResolved(a) == find_agent(LastCatalog, a).loc # "none"

SkillSource(s) == find_skill(LastCatalog, s)

SkillResolved(s) == SkillSource(s).loc # "none" /\ SkillSource(s).entry.kind = "dir"

(* every skill directory the catalog resolves for the profile can be read,
   so that no copy of the call fails *)
SourcesReadable == \A s \in SeqToSet(LastProfile.skills) : SkillSource(s).entry.readable

ProfileAgents == all_agents(LastProfile)

ProfileSkills == LastProfile.skills

(* the names at the positions of idx, in the order of names *)
RECURSIVE Pick(_, _, _)
Pick(names, idx, i) ==
  IF i > Len(names) THEN << >>
  ELSE (IF i \in idx THEN << names[i] >> ELSE << >>) \o Pick(names, idx, i + 1)

(* whether the destination of names[i] exists when the call reaches
   position i: it was there before the call, or an earlier position put it
   there *)
PresentAt(names, i, was_present(_)) ==
  was_present(names[i]) \/ \E j \in 1..(i - 1) : names[j] = names[i]

AgentWasPresent(a) == Pre.agents[a] # NoFile

SkillWasPresent(s) == Pre.skills[s] # << >>

(* an event of the log: a line that holds an object with a timestamp that
   reads as a date *)
IsEvent(line) == line.kind = "json" /\ "ts" \in DOMAIN line.obj /\ line.obj.ts.iso

(* the events of the log of f later than cutoff, in the order of the log *)
EventsSince(f, cutoff) ==
  LET lines == SelectSeq(LogLines(f), LAMBDA line : IsEvent(line) /\ line.obj.ts.day > cutoff)
  IN  [i \in DOMAIN lines |-> lines[i].obj]

----------------------------------------------------------------------------
TwiceInARow ==
  /\ Succeeded({"deploy"}) /\ ~last.force
  /\ last.prev.op = "deploy" /\ last.prev.result = "true" /\ ~last.prev.force
  /\ last.prev.profile = last.profile
  /\ last.prev.release = last.release

(* C1: two deploys in a row with the same profile, the same catalog and
   force=false leave the same sets of deployed_agents and deployed_skills
   in the project profile, and the second changes no agent file and no
   skill directory that was there before it. *)
C1_DeployIdempotent ==
  TwiceInARow =>
    /\ SeqToSet(ProjectState(fs).deployed_agents) = SeqToSet(ProjectState(Pre).deployed_agents)
    /\ SeqToSet(ProjectState(fs).deployed_skills) = SeqToSet(ProjectState(Pre).deployed_skills)
    /\ \A a \in AgentNames : Pre.agents[a] # NoFile => fs.agents[a] = Pre.agents[a]
    /\ \A s \in SkillNames : Pre.skills[s] # << >> => fs.skills[s] = Pre.skills[s]

(* the second of two such deploys, the first of which copied an agent next
   to one the user had written by hand *)
C1_Witness ==
  /\ TwiceInARow
  /\ last.agents.deployed = << >>
  /\ last.agents.skipped # << >>
  /\ \E a \in AgentNames : fs.agents[a] \in LocalContents
  /\ \E a \in AgentNames : fs.agents[a] # NoFile /\ fs.agents[a] \notin LocalContents

(* C2: after deploy with force=true every agent file and skill directory
   the profile names and the catalog holds equals its catalog source; of a
   skill directory that was there before, no file survives. *)
C2_ForceMatchesSource ==
  (Succeeded({"deploy"}) /\ last.force) =>
    /\ \A a \in SeqToSet(ProfileAgents) :
         AgentResolved(a) => fs.agents[a] = find_agent(LastCatalog, a).content
    /\ \A s \in SeqToSet(ProfileSkills) :
         SkillResolved(s) => fs.skills[s] = << SkillSource(s).entry.tree >>

(* a forced deploy over an agent file with other content and over a skill
   directory holding a file its source does not have *)
C2_Witness ==
  /\ Succeeded({"deploy"}) /\ last.force
  /\ \E a \in SeqToSet(ProfileAgents) :
       /\ AgentResolved(a)
       /\ Pre.agents[a] \notin {NoFile, find_agent(LastCatalog, a).content}
  /\ \E s \in SeqToSet(ProfileSkills) :
       /\ SkillResolved(s)
       /\ Pre.skills[s] # << >>
       /\ \E f \in SkillFiles : Pre.skills[s][1][f] # NoFile /\ SkillSource(s).entry.tree[f] = NoFile

ExpectedDeployed(names, resolved(_), was_present(_)) ==
  Pick(names, {i \in DOMAIN names :
                 resolved(names[i]) /\ (~PresentAt(names, i, was_present) \/ last.force)}, 1)

ExpectedSkipped(names, resolved(_), was_present(_)) ==
  Pick(names, {i \in DOMAIN names :
                 resolved(names[i]) /\ PresentAt(names, i, was_present) /\ ~last.force}, 1)

(* C3: a resolved artifact is recorded as deployed exactly when its
   destination is absent when the call reaches it or force is set, and as
   skipped exactly when its destination is present and force is not set;
   a skipped artifact is not copied. *)
C3_StatusStateMachine ==
  Succeeded({"deploy", "sync"}) =>
    /\ last.agents.deployed = ExpectedDeployed(ProfileAgents, AgentResolved, AgentWasPresent)
    /\ last.agents.skipped = ExpectedSkipped(ProfileAgents, AgentResolved, AgentWasPresent)
    /\ last.skills.deployed = ExpectedDeployed(ProfileSkills, SkillResolved, SkillWasPresent)
    /\ last.skills.skipped = ExpectedSkipped(ProfileSkills, SkillResolved, SkillWasPresent)
    /\ \A a \in SeqToSet(ProfileAgents) :
         (AgentResolved(a) /\ AgentWasPresent(a) /\ ~last.force) => fs.agents[a] = Pre.agents[a]
    /\ \A s \in SeqToSet(ProfileSkills) :
         (SkillResolved(s) /\ SkillWasPresent(s) /\ ~last.force) => fs.skills[s] = Pre.skills[s]

(* one call without force that found one agent present and another absent,
   and found a skill directory present *)
C3_Witness ==
  /\ Succeeded({"deploy"}) /\ ~last.force
  /\ \E a, b \in SeqToSet(ProfileAgents) :
       /\ AgentResolved(a) /\ AgentWasPresent(a)
       /\ AgentResolved(b) /\ ~AgentWasPresent(b)
  /\ last.skills.skipped # << >>

AgentAbsentFromCatalog(a) == find_agent(LastCatalog, a).loc = "none"

SkillAbsentFromCatalog(s) == find_skill(LastCatalog, s).loc = "none"

(* C4: an agent or skill of the profile that no catalog location holds is
   warned about, is neither deployed nor skipped nor listed in the project
   profile; the other artifacts are reconciled and deploy returns True
   (the skill directories the catalog does hold being readable, so that
   no copy fails). *)
C4_MissingArtifactNotFatal ==
  (last.op = "deploy" /\ Pre.exists /\ last.profile \in DOMAIN Profiles /\ SourcesReadable) =>
    /\ last.result = "true"
    /\ \A a \in SeqToSet(ProfileAgents) :
         IF AgentAbsentFromCatalog(a)
         THEN /\ a \in SeqToSet(last.agents.warnings)
              /\ a \notin SeqToSet(last.agents.deployed) \cup SeqToSet(last.agents.skipped)
              /\ a \notin SeqToSet(ProjectState(fs).deployed_agents)
              /\ fs.agents[a] = Pre.agents[a]
         ELSE /\ a \in SeqToSet(last.agents.deployed) \cup SeqToSet(last.agents.skipped)
              /\ a \in SeqToSet(ProjectState(fs).deployed_agents)
              /\ fs.agents[a] # NoFile
    /\ \A s \in SeqToSet(ProfileSkills) :
         IF SkillAbsentFromCatalog(s)
         THEN /\ s \in SeqToSet(last.skills.warnings)
              /\ s \notin SeqToSet(last.skills.deployed) \cup SeqToSet(last.skills.skipped)
              /\ s \notin SeqToSet(ProjectState(fs).deployed_skills)
              /\ fs.skills[s] = Pre.skills[s]
         ELSE SkillResolved(s) =>
                /\ s \in SeqToSet(last.skills.deployed) \cup SeqToSet(last.skills.skipped)
                /\ s \in SeqToSet(ProjectState(fs).deployed_skills)
                /\ fs.skills[s] # << >>

(* a deploy whose profile names an agent and a skill the catalog does not
   hold, next to an agent and a skill it copied *)
C4_Witness ==
  /\ last.op = "deploy" /\ last.result = "true"
  /\ \E a \in SeqToSet(ProfileAgents) : AgentAbsentFromCatalog(a)
  /\ \E s \in SeqToSet(ProfileSkills) : SkillAbsentFromCatalog(s)
  /\ last.agents.deployed # << >>
  /\ last.skills.deployed # << >>

(* C7: sync on a project with a project profile calls deploy with the
   recorded profile name and force=true; when that deploy succeeds, every
   resolved artifact of the profile equals its catalog copy, nothing is
   skipped, and the new project profile carries the same profile name. *)
C7_SyncRedeploysForced ==
  (last.op = "sync" /\ Pre.profile_file # << >>) =>
    /\ last.profile = ProjectState(Pre).profile
    /\ last.force
    /\ last.result = "true" =>
         /\ \A a \in SeqToSet(ProfileAgents) :
              AgentResolved(a) => fs.agents[a] = find_agent(LastCatalog, a).content
         /\ \A s \in SeqToSet(ProfileSkills) :
              SkillResolved(s) => fs.skills[s] = << SkillSource(s).entry.tree >>
         /\ last.agents.skipped = << >>
         /\ last.skills.skipped = << >>
         /\ ProjectState(fs).profile = ProjectState(Pre).profile

(* a sync that replaced an agent file and a skill directory that differed
   from the catalog *)
C7_Witness ==
  /\ last.op = "sync" /\ last.result = "true"
  /\ \E a \in SeqToSet(ProfileAgents) :
       AgentResolved(a) /\ Pre.agents[a] # NoFile /\ Pre.agents[a] # fs.agents[a]
  /\ \E s \in SeqToSet(ProfileSkills) :
       SkillResolved(s) /\ Pre.skills[s] # << >> /\ Pre.skills[s] # fs.skills[s]

(* C8: deploy on a project path that does not exist returns False and
   creates or changes nothing. *)
C8_NoProjectNoMutation ==
  (last.op = "deploy" /\ ~Pre.exists) =>
    /\ last.result = "false"
    /\ fs = Pre
    /\ fs.dirs = {} /\ fs.profile_file = << >> /\ fs.organizer = << >> /\ fs.log = << >>

(* a deploy of a profile the catalog defines on a path that does not exist *)
C8_Witness ==
  last.op = "deploy" /\ ~Pre.exists /\ last.profile \in DOMAIN Profiles

(* C9: on an existing project, deploy with a profile name the catalog does
   not define leaves by the error of load_profile, and sync without a
   project profile returns False without calling deploy; neither changes
   the project. *)
C9_NotFoundLeavesProject ==
  /\ (last.op = "deploy" /\ Pre.exists /\ last.profile \notin DOMAIN Profiles) =>
       (last.result = "raised" /\ fs = Pre)
  /\ (last.op = "sync" /\ Pre.profile_file = << >>) =>
       (last.result = "false" /\ ~last.force /\ fs = Pre)

(* a deploy of an undefined profile on a project that holds deployed
   artifacts *)
C9_Witness ==
  /\ last.op = "deploy" /\ last.profile \notin DOMAIN Profiles
  /\ Pre.exists /\ Pre.profile_file # << >>

FreshRecord ==
  yaml_safe_load(
    create_project_profile(EmptyFs, last.at, last.profile,
                           last.agents.deployed \o last.agents.skipped,
                           last.skills.deployed \o last.skills.skipped).profile_file[1])

(* C5: after a successful deploy the project profile lists
   deployed + skipped for agents and for skills, and is the record a deploy
   on a project without a project profile would have written: nothing of
   the record it replaced is left. *)
C5_StateIsDeployedUnionSkipped ==
  Succeeded({"deploy", "sync"}) =>
    /\ ProjectState(fs).deployed_agents = last.agents.deployed \o last.agents.skipped
    /\ ProjectState(fs).deployed_skills = last.skills.deployed \o last.skills.skipped
    /\ ProjectState(fs).profile = last.profile
    /\ DOMAIN ProjectState(fs) = SeqToSet(ProfileKeys)
    /\ Len(fs.profile_file[1]) = Len(ProfileKeys)
    /\ ProjectState(fs) = FreshRecord

(* a deploy that both copied and skipped, over the record of another
   profile written at another time whose metrics had been refreshed *)
C5_Witness ==
  /\ Succeeded({"deploy"})
  /\ last.agents.deployed # << >> /\ last.agents.skipped # << >>
  /\ Pre.profile_file # << >>
  /\ ProjectState(Pre).profile # last.profile
  /\ ProjectState(Pre).created # last.at
  /\ "last_updated" \in DOMAIN ProjectState(Pre).metrics
  /\ ProjectState(Pre).metrics.total_tasks > 0

(* C6: the metrics of the project profile written by deploy count the
   events of the feedback log inside the 30-day window. *)
C6_DeployRecomputesMetrics ==
  Succeeded({"deploy"}) =>
    LET entries == EventsSince(fs, last.at - ProfileWindowDays)
        metrics == ProjectState(fs).metrics
    IN  /\ metrics.total_tasks = Len(entries)
        /\ metrics.accepted = Cardinality({i \in DOMAIN entries : entries[i].outcome = "accepted"})
        /\ metrics.rejected = Cardinality({i \in DOMAIN entries : entries[i].outcome = "rejected"})

SyncAfterDeploy ==
  /\ last.op = "sync"
  /\ last.prev.op = "deploy" /\ last.prev.result = "true"
  /\ last.prev.release = last.release

(* C10 as claimed: between the project profile a deploy wrote and the one
   the sync that reloads it writes, only last_sync differs. *)
C10_OnlyLastSyncDiffers ==
  SyncAfterDeploy =>
    /\ last.result = "true"
    /\ DOMAIN ProjectState(fs) = DOMAIN ProjectState(Pre)
    /\ \A k \in DOMAIN ProjectState(Pre) \ {"last_sync"} : ProjectState(fs)[k] = ProjectState(Pre)[k]

(* C10: the project profile a deploy wrote, reloaded by sync against the
   same catalog, names a profile sync can deploy again, and the record sync
   writes has the same profile name and the same deployed agents and skills
   as sets when every skill directory of the catalog can be copied;
   project, catalog_version and metrics are equal too, and what may differ
   is created, last_sync and the order of the two lists. *)
C10_ReloadKeepsProfileAndAgents ==
  SyncAfterDeploy =>
    /\ last.profile = ProjectState(Pre).profile
    /\ last.profile \in DOMAIN Profiles
    /\ SourcesReadable =>
         /\ last.result = "true"
         /\ ProjectState(fs).profile = ProjectState(Pre).profile
         /\ SeqToSet(ProjectState(fs).deployed_agents) = SeqToSet(ProjectState(Pre).deployed_agents)
         /\ SeqToSet(ProjectState(fs).deployed_skills) = SeqToSet(ProjectState(Pre).deployed_skills)
         /\ DOMAIN ProjectState(fs) = DOMAIN ProjectState(Pre)
         /\ \A k \in DOMAIN ProjectState(Pre) \
                      {"created", "last_sync", "deployed_agents", "deployed_skills"} :
              ProjectState(fs)[k] = ProjectState(Pre)[k]

(* a sync, later than the deploy before it, that wrote the agents in
   another order *)
C10_Witness ==
  /\ SyncAfterDeploy /\ last.result = "true"
  /\ ProjectState(fs).created # ProjectState(Pre).created
  /\ ProjectState(fs).deployed_agents # ProjectState(Pre).deployed_agents

----------------------------------------------------------------------------
(* the agents of the last call that are in the project when it ends *)
ReconciledAgents == SeqToSet(last.agents.deployed) \cup SeqToSet(last.agents.skipped)

(* the names a section of the dispatcher lists *)
Listed(rows) == {rows[i][1] : i \in DOMAIN rows}

(* C11: every deploy that succeeds (sync's too) writes the dispatcher,
   with force or without, whether the file was there or not; its table and
   its selection guide list exactly the agents deployed or skipped by that
   call, each described by its entry of agent_descriptions or, without one,
   by its title-cased name; a deploy that leaves before agents and skills
   are both reconciled does not touch the dispatcher. *)
C11_OrganizerFollowsReconcile ==
  /\ Succeeded({"deploy", "sync"}) =>
       /\ fs.organizer # << >>
       /\ LET doc == fs.organizer[1]
          IN  /\ Listed(doc.agents_table) = ReconciledAgents
              /\ Listed(doc.selection_guide) = ReconciledAgents
              /\ \A i \in DOMAIN doc.agents_table :
                   doc.agents_table[i][2] = title(doc.agents_table[i][1])
              /\ \A i \in DOMAIN doc.selection_guide :
                   LET a == doc.selection_guide[i][1]
                       d == doc.selection_guide[i][2]
                   IN  IF a \in DOMAIN agent_descriptions
                       THEN d.text = agent_descriptions[a]
                       ELSE d.text = title(a) \o " tasks"
  /\ (last.op \in {"deploy", "sync"} /\ last.result # "true") => fs.organizer = Pre.organizer

(* a deploy without force over a dispatcher that listed other agents; one
   of the agents it lists has an entry in the table, another has none *)
C11_Witness ==
  /\ Succeeded({"deploy"}) /\ ~last.force
  /\ Pre.organizer # << >> /\ Pre.organizer # fs.organizer
  /\ \E a \in ReconciledAgents : a \in DOMAIN agent_descriptions
  /\ \E a \in ReconciledAgents : a \notin DOMAIN agent_descriptions

----------------------------------------------------------------------------
IsPrefix(s, t) == Len(s) <= Len(t) /\ SubSeq(t, 1, Len(s)) = s

(* C12: no step of append, deploy, sync or metrics update removes or
   changes a line of the feedback log or removes the file: the log before
   the step is a prefix of the log after it; and a deploy that succeeds
   leaves a log file, which it creates only when there was none. *)
C12_LogAppendOnly ==
  /\ [][/\ IsPrefix(LogLines(fs), LogLines(fs'))
        /\ (fs.log # << >> => fs'.log # << >>)]_vars
  /\ [](Succeeded({"deploy", "sync"}) =>
          /\ fs.log # << >>
          /\ (Pre.log = << >> => fs.log = << << >> >>))

(* a deploy on a project whose log held a line *)
C12_Witness ==
  /\ Succeeded({"deploy", "sync"})
  /\ LogLines(Pre) # << >>
  /\ fs.log = Pre.log

----------------------------------------------------------------------------
(* the record the last line of the log holds *)
LastLine(f) == LogLines(f)[Len(LogLines(f))]

(* C13: a run of the script that logs an event appends one record, whose
   task is the first 200 characters of the task given; a run with an
   outcome other than accepted, rejected and iteration writes nothing; so
   every record the script wrote has one of the three outcomes and a task
   of at most 200 characters. *)
C13_AppendValidatesAndTruncates ==
  /\ \A i \in DOMAIN LogLines(fs) :
       LogLines(fs)[i].kind = "json" =>
         /\ LogLines(fs)[i].obj.outcome \in {"accepted", "rejected", "iteration"}
         /\ Len(LogLines(fs)[i].obj.task) <= 200
  /\ last.op = "log_feedback" =>
       LET args == last.input[1]
       IN  IF args.outcome \notin {"accepted", "rejected", "iteration"}
           THEN fs = Pre
           ELSE last.result = "logged" =>
                  /\ LogLines(fs) = Append(LogLines(Pre), LastLine(fs))
                  /\ LastLine(fs).kind = "json"
                  /\ LastLine(fs).obj.agent = args.agent
                  /\ LastLine(fs).obj.outcome = args.outcome
                  /\ IsPrefix(LastLine(fs).obj.task, args.task)
                  /\ Len(LastLine(fs).obj.task) = IF Len(args.task) > 200 THEN 200
                                                  ELSE Len(args.task)

(* a record written for a task of more than 200 characters *)
C13_Witness ==
  /\ last.op = "log_feedback" /\ last.result = "logged"
  /\ Len(last.input[1].task) > 200
  /\ Len(LastLine(fs).obj.task) = 200

(* C17: update_project_profile that returns leaves metrics that count the
   events of the log inside the 30-day window and nothing else, whatever
   the metrics were before: total_tasks, accepted, rejected and the
   acceptance rate of these events; profile, deployed_agents and
   deployed_skills of the project profile stay as they were. *)
C17_MetricsFullRecomputation ==
  (last.op = "update_profile" /\ Pre.profile_file # << >>) =>
    /\ ProjectState(fs).profile = ProjectState(Pre).profile
    /\ ProjectState(fs).deployed_agents = ProjectState(Pre).deployed_agents
    /\ ProjectState(fs).deployed_skills = ProjectState(Pre).deployed_skills
    /\ last.result = "returned" =>
         LET events == EventsSince(Pre, last.at - ProfileWindowDays)
             accepted == Cardinality({i \in DOMAIN events : events[i].outcome = "accepted"})
             rejected == Cardinality({i \in DOMAIN events : events[i].outcome = "rejected"})
             metrics == ProjectState(fs).metrics
         IN  /\ DOMAIN metrics = {"total_tasks", "accepted", "rejected", "acceptance_rate",
                                  "last_updated"}
             /\ metrics.total_tasks = Len(events)
             /\ metrics.accepted = accepted
             /\ metrics.rejected = rejected
             /\ IF events = << >> THEN metrics.acceptance_rate = 0
                ELSE LET d == metrics.acceptance_rate * Len(events) - 1000 * accepted
                     IN  2 * d <= Len(events) /\ 2 * d >= 0 - Len(events)

(* an update over metrics an earlier update stored, after an event they
   counted has left the window *)
C17_Witness ==
  /\ last.op = "update_profile" /\ last.result = "returned"
  /\ Pre.profile_file # << >>
  /\ "last_updated" \in DOMAIN ProjectState(Pre).metrics
  /\ ProjectState(Pre).metrics.total_tasks > 0
  /\ ProjectState(fs).metrics.total_tasks < ProjectState(Pre).metrics.total_tasks

----------------------------------------------------------------------------
(* the last call was a read of the log that came back *)
LoadReturned == last.op \in {"summary", "report"} /\ last.result = "returned"

LoadedEntries == last.value[1].entries

LoadCutoff == last.at - last.input[1]

(* C14: a load that returns, in metrics_collector.py and in
   weekly_reporter.py, returns the events of the log with a timestamp
   later than now minus the window, in the order of the log; an event
   whose timestamp is now minus the window is left out. *)
C14_WindowIsExclusive ==
  LoadReturned =>
    /\ LoadedEntries = EventsSince(Pre, LoadCutoff)
    /\ \A i \in DOMAIN LoadedEntries : LoadedEntries[i].ts.day # LoadCutoff

(* a load over a log with an event on the cutoff, an event after it and an
   event before it *)
C14_Witness ==
  /\ LoadReturned
  /\ \E i \in DOMAIN LogLines(Pre) :
       IsEvent(LogLines(Pre)[i]) /\ LogLines(Pre)[i].obj.ts.day = LoadCutoff
  /\ \E i \in DOMAIN LogLines(Pre) :
       IsEvent(LogLines(Pre)[i]) /\ LogLines(Pre)[i].obj.ts.day < LoadCutoff
  /\ LoadedEntries # << >>

(* C15: a read of the log, in metrics_collector.py and in
   weekly_reporter.py, comes back whatever lines the log holds, with the
   events of the window; text that is no JSON, an object without "ts" and a
   "ts" that is no date are passed over. *)
C15_MalformedLineNeverAborts ==
  last.op \in {"summary", "report"} =>
    /\ last.result = "returned"
    /\ LoadedEntries = EventsSince(Pre, LoadCutoff)

----------------------------------------------------------------------------
EventsOf(entries, agent) == SelectSeq(entries, LAMBDA e : e.agent = agent)

CountOutcome(entries, outcome) ==
  Cardinality({i \in DOMAIN entries : entries[i].outcome = outcome})

RECURSIVE IterationSum(_)
IterationSum(entries) ==
  IF entries = << >> THEN 0 ELSE Head(entries).iterations + IterationSum(Tail(entries))

(* the positions of the rejected events that give a reason *)
RejectedWithReason(entries) ==
  {i \in DOMAIN entries :
     /\ entries[i].outcome = "rejected"
     /\ "reason" \in DOMAIN entries[i]
     /\ entries[i].reason # ""}

(* rate, in tenths of a percent, is 100 * num / den rounded to one decimal *)
IsRoundedPercent(rate, num, den) ==
  LET d == rate * den - 1000 * num
  IN  2 * d <= den /\ 2 * d >= 0 - den

(* C16: the statistics computed from a sequence of events give, for every
   agent with N events in it and no other, total N, the numbers of its
   accepted, rejected and iteration events, the sum of its iteration
   counts, the acceptance rate 100 * accepted / N rounded to one decimal,
   and for every reason of one of its rejected events the number of those
   events; for no events there is no agent, nothing is divided and the
   overall rate is 0. *)
C16_AggregationCounts ==
  LoadReturned =>
    LET entries == LoadedEntries
        agents == last.value[1].agents
        overall == last.value[1].overall
    IN  /\ DOMAIN agents = {entries[i].agent : i \in DOMAIN entries}
        /\ \A a \in DOMAIN agents :
             LET events == EventsOf(entries, a)
                 stats == agents[a]
             IN  /\ stats.total = Len(events)
                 /\ stats.accepted = CountOutcome(events, "accepted")
                 /\ stats.rejected = CountOutcome(events, "rejected")
                 /\ stats.iterations = CountOutcome(events, "iteration")
                 /\ stats.total_iterations = IterationSum(events)
                 /\ IsRoundedPercent(stats.acceptance_rate,
                                     CountOutcome(events, "accepted"), Len(events))
                 /\ DOMAIN stats.reasons =
                      {events[i].reason : i \in RejectedWithReason(events)}
                 /\ \A r \in DOMAIN stats.reasons :
                      stats.reasons[r] =
                        Cardinality({i \in RejectedWithReason(events) : events[i].reason = r})
        /\ overall # << >> =>
             IF entries = << >> THEN overall[1] = 0
             ELSE IsRoundedPercent(overall[1], CountOutcome(entries, "accepted"), Len(entries))

(* the statistics of accepted, rejected for "wrong approach", accepted *)
C16_Witness ==
  /\ LoadReturned
  /\ Len(LoadedEntries) = 3
  /\ \A i \in 1..3 : LoadedEntries[i].agent = "python-pro"
  /\ LoadedEntries[1].outcome = "accepted"
  /\ LoadedEntries[2].outcome = "rejected" /\ LoadedEntries[2].reason = "wrong approach"
  /\ LoadedEntries[3].outcome = "accepted"
  /\ LET stats == last.value[1].agents["python-pro"]
     IN  /\ stats.total = 3 /\ stats.accepted = 2 /\ stats.rejected = 1
         /\ stats.acceptance_rate = 667
         /\ stats.reasons = [r \in {"wrong approach"} |-> 1]

----------------------------------------------------------------------------
Matched == last.op \in {"match_profiles", "match_profiles_again"}

Matches == last.value[1].matches

MatchInput == last.input[1]

(* the score match_profiles adds up for the profile at position i of the
   registry, before the clamp *)
RawScore(i) ==
  profile_score(MatchInput.profiles[i][1], MatchInput.profiles[i][2], MatchInput.analysis).score

(* C18: match_profiles returns one match for every profile whose score is
   above 0 and none for the others; the score of a match is the smaller of
   the profile's score and 100, a whole number from 0 to 100; more than one
   match may have the score 100. *)
C18_MatchesArePositiveAndClamped ==
  Matched =>
    /\ \A i \in DOMAIN MatchInput.profiles :
         LET name == MatchInput.profiles[i][1]
             found == {k \in DOMAIN Matches : Matches[k].profile = name}
         IN  IF RawScore(i) > 0
             THEN /\ Cardinality(found) = 1
                  /\ \A k \in found :
                       Matches[k].score = IF RawScore(i) < 100 THEN RawScore(i) ELSE 100
             ELSE found = {}
    /\ \A k \in DOMAIN Matches :
         /\ Matches[k].score \in 0..100
         /\ \E i \in DOMAIN MatchInput.profiles : MatchInput.profiles[i][1] = Matches[k].profile

(* two matches of score 100, one of them for a profile that scored more, and
   a profile that scored 0 *)
C18_Witness ==
  /\ Matched
  /\ \E j, k \in DOMAIN Matches : j # k /\ Matches[j].score = 100 /\ Matches[k].score = 100
  /\ \E i \in DOMAIN MatchInput.profiles : RawScore(i) > 100
  /\ \E i \in DOMAIN MatchInput.profiles : RawScore(i) = 0

(* the position of the profile of a match in the registry *)
RegistryPosition(name) ==
  CHOOSE i \in DOMAIN MatchInput.profiles : MatchInput.profiles[i][1] = name

(* C19: in the list match_profiles returns no match is followed by one of a
   higher score, and of two matches of the same score the one whose profile
   comes first in the registry comes first. *)
C19_DescendingAndStable ==
  Matched =>
    \A j, k \in DOMAIN Matches :
      j < k =>
        /\ Matches[j].score >= Matches[k].score
        /\ Matches[j].score = Matches[k].score =>
             RegistryPosition(Matches[j].profile) < RegistryPosition(Matches[k].profile)

(* two matches of the same score behind a match whose profile comes after
   theirs in the registry *)
C19_Witness ==
  /\ Matched
  /\ \E j, k \in DOMAIN Matches :
       /\ j < k /\ Matches[j].score = Matches[k].score
       /\ \E h \in DOMAIN Matches :
            /\ h < j /\ Matches[h].score > Matches[j].score
            /\ RegistryPosition(Matches[h].profile) > RegistryPosition(Matches[k].profile)

(* the score match_profiles returned for a profile, 0 when it returned no
   match for it *)
ScoreIn(matches, name) ==
  IF \E k \in DOMAIN matches : matches[k].profile = name
  THEN matches[CHOOSE k \in DOMAIN matches : matches[k].profile = name].score
  ELSE 0

HasIndicator(profile, token) ==
  /\ "tech_patterns" \in DOMAIN profile
  /\ token \in SeqToSet(profile.tech_patterns.indicators)

(* C20: when the analysis gains one indicator and nothing else changes, no
   profile that lists this indicator gets a lower score, and each of them
   gets a higher score unless its score was 100. *)
C20_MoreIndicatorsNeverLower ==
  last.op = "match_profiles_again" =>
    \A i \in DOMAIN MatchInput.profiles :
      LET name == MatchInput.profiles[i][1]
          old == ScoreIn(last.value[1].before, name)
          new == ScoreIn(Matches, name)
      IN  HasIndicator(MatchInput.profiles[i][2], last.value[1].added) =>
            /\ new >= old
            /\ old < 100 => new > old

(* an indicator gained that two profiles list: one was at 100 and stays
   there, the other gets a higher score *)
C20_Witness ==
  /\ last.op = "match_profiles_again"
  /\ \E i, j \in DOMAIN MatchInput.profiles :
       /\ HasIndicator(MatchInput.profiles[i][2], last.value[1].added)
       /\ HasIndicator(MatchInput.profiles[j][2], last.value[1].added)
       /\ ScoreIn(last.value[1].before, MatchInput.profiles[i][1]) = 100
       /\ ScoreIn(Matches, MatchInput.profiles[i][1]) = 100
       /\ ScoreIn(Matches, MatchInput.profiles[j][1])
            > ScoreIn(last.value[1].before, MatchInput.profiles[j][1])

----------------------------------------------------------------------------
(* the indicators of the profile at position i of the registry *)
IndicatorSet(i) ==
  LET profile == MatchInput.profiles[i][2]
  IN  IF "tech_patterns" \in DOMAIN profile
      THEN SeqToSet(profile.tech_patterns.indicators) ELSE {}

Overlap(i) == MatchInput.analysis.indicators \cap IndicatorSet(i)

(* the bonus of the profile called name: the sum of the five rules, of
   which the name lets at most one apply *)
NameBonus(name) ==
  LET a == MatchInput.analysis
  IN  (IF name = "nextjs-frontend" /\ "Next.js" \in a.frameworks THEN 50 ELSE 0)
      + (IF name = "python-backend" /\ "Python" \in a.tech_stack
         THEN (IF \E f \in {"FastAPI", "Flask", "Django"} : f \in a.frameworks THEN 40 ELSE 20)
         ELSE 0)
      + (IF name = "trading-fintech"
         THEN 30 * Cardinality({t \in a.indicators :
                                  t \in {"ccxt", "alpaca", "trading", "arbitrage", "kalshi",
                                         "polymarket", "crypto"}})
         ELSE 0)
      + (IF name = "ai-ml" /\ \E t \in a.indicators :
                                 t \in {"anthropic", "openai", "langchain", "llm", "embedding"}
         THEN 50 ELSE 0)
      + (IF name = "fullstack" /\ "Next.js" \in a.frameworks /\ a.structure.has_db
         THEN 45 ELSE 0)

(* the three contributions to the score of the profile at position i *)
Contributions(i) ==
  << 20 * Cardinality(Overlap(i)),
     15 * Cardinality({t \in IndicatorSet(i) : t \in MatchInput.analysis.dependencies}),
     NameBonus(MatchInput.profiles[i][1]) >>

(* C21: the score of a profile before the clamp is 20 for every indicator
   the analysis and the profile share, plus 15 for every indicator of the
   profile among the dependencies, plus the bonus its name earns, added in
   any order; the reasons of its match are the indicators shared, when
   there are any, followed by the reason of the bonus, when it earned one. *)
C21_ScoreIsSumOfRules ==
  Matched =>
    \A i \in DOMAIN MatchInput.profiles :
      LET name == MatchInput.profiles[i][1]
          c == Contributions(i)
          scored == profile_score(name, MatchInput.profiles[i][2], MatchInput.analysis)
      IN  /\ \A x, y, z \in 1..3 : {x, y, z} = 1..3 => scored.score = (c[x] + c[y]) + c[z]
          /\ Len(scored.reasons) = (IF Overlap(i) # {} THEN 1 ELSE 0)
                                   + (IF c[3] > 0 THEN 1 ELSE 0)
          /\ Overlap(i) # {} =>
               /\ scored.reasons[1].text = "indicators"
               /\ scored.reasons[1].tokens = Overlap(i)
          /\ c[3] > 0 => scored.reasons[Len(scored.reasons)].text # "indicators"
          /\ \A k \in DOMAIN Matches :
               Matches[k].profile = name => Matches[k].reasons = scored.reasons

(* a trading profile with two trading indicators, and a profile that
   scores on a dependency and on a web framework *)
C21_Witness ==
  /\ Matched
  /\ \E i \in DOMAIN MatchInput.profiles :
       /\ MatchInput.profiles[i][1] = "trading-fintech"
       /\ Contributions(i)[1] = 40 /\ Contributions(i)[3] = 60
  /\ \E i \in DOMAIN MatchInput.profiles :
       /\ Contributions(i)[2] = 15 /\ Contributions(i)[3] = 40
  /\ \E k \in DOMAIN Matches : Len(Matches[k].reasons) = 2

----------------------------------------------------------------------------
(* Recommendation *)

Recommended == last.op = "recommend" /\ last.result = "returned"

(* the document of the profiles directory that carries the name *)
ProfileFile(files, name) ==
  (CHOOSE k \in DOMAIN files : files[k].parses /\ "name" \in DOMAIN files[k].doc
                                 /\ files[k].doc.name = name)

RECURSIVE Declared(_, _)
Declared(doc, path) ==
  IF Len(path) = 0 THEN doc
  ELSE IF path[1] \in DOMAIN doc THEN Declared(doc[path[1]], Tail(path))
  ELSE << >>

(* C22: when recommend returns a non-empty match list, the first match has
   the highest score, primary_profile and confidence are its profile and
   score, recommended_agents is agents.core followed by agents.optional of
   that profile's file and recommended_skills its skills, and --auto deploys
   that profile; when the list is empty recommend still returns, with no
   primary profile, confidence 0 and empty lists, and --auto exits with
   status 1 *)
C22_TopMatchSelection ==
  Recommended =>
    LET out == last.value[1]
        matches == out.profile_matches
    IN  /\ matches = match_profiles(last.input[1].analysis, last.prev.profiles)
        /\ matches # << >> =>
              LET top == matches[1]
                  doc == last.prev.files[ProfileFile(last.prev.files, top.profile)].doc
              IN  /\ \A k \in DOMAIN matches : matches[k].score <= top.score
                  /\ out.primary_profile = << top.profile >>
                  /\ out.confidence = top.score
                  /\ out.recommended_agents =
                        Declared(doc, <<"agents", "core">>) \o Declared(doc, <<"agents", "optional">>)
                  /\ out.recommended_skills = Declared(doc, <<"skills">>)
                  /\ last.prev.auto = [result |-> "deploy", profile |-> << top.profile >>]
        /\ matches = << >> =>
              /\ out.primary_profile = << >>
              /\ out.confidence = 0
              /\ out.recommended_agents = << >>
              /\ out.recommended_skills = << >>
              /\ last.prev.auto = [result |-> "exit 1", profile |-> << >>]

(* recommend has returned several matches of different scores, the first of
   them a profile with core and optional agents and skills *)
C22_Witness ==
  /\ Recommended
  /\ Len(last.value[1].profile_matches) >= 2
  /\ last.value[1].profile_matches[1].score > last.value[1].profile_matches[2].score
  /\ last.value[1].profile_matches[Len(last.value[1].profile_matches)].score
       < last.value[1].profile_matches[1].score
  /\ Len(last.value[1].recommended_agents) = 3
  /\ Len(last.value[1].recommended_skills) = 2

----------------------------------------------------------------------------
(* Loading the registry *)

UsableFiles(files) == SelectSeq(files, LAMBDA f : f.parses /\ "name" \in DOMAIN f.doc)

(* C23: load_profiles does not raise on a directory holding a file that is
   not YAML or a document without a name, and the mapping recommend works
   with has exactly the names of the other files, each with its document *)
C23_MalformedProfileIsSkipped ==
  /\ last.op = "load_profiles" => last.result # "raised"
  /\ last.op = "recommend" /\ fs.exists =>
        /\ last.result = "returned"
        /\ { pair[2] : pair \in SeqToSet(last.prev.profiles) }
             = { f.doc : f \in SeqToSet(UsableFiles(last.prev.files)) }
        /\ \A pair \in SeqToSet(last.prev.profiles) : pair[1] = pair[2].name

----------------------------------------------------------------------------
(* Lookup order *)

Ran == last.op \in {"deploy", "sync"} /\ last.result \in {"true", "raised"}
         /\ last.profile \in DOMAIN Profiles

(* the copies of an agent in the order the lookup tries them: the category
   directories, then the mirror *)
AgentCopies(a) == LastCatalog.agents[a].curated \o << LastCatalog.agents[a].ecc >>

(* the entries of a skill in the order the lookup tries them: the two
   curated sources, then the mirror *)
SkillCopies(s) ==
  << LastCatalog.skills[s].vercel, LastCatalog.skills[s].anthropic, LastCatalog.skills[s].ecc >>

(* position i is the first of copies that exists *)
FirstHit(copies, i, missing) ==
  /\ i \in DOMAIN copies
  /\ copies[i] # missing
  /\ \A j \in 1..(i - 1) : copies[j] = missing

(* C24: an agent or skill the call copied has the content of the first
   location of the lookup order that holds the name, a curated one whenever
   there is one and the mirror otherwise; a name the call warned about is in
   no location (or, for a skill, its first location holds something that is
   not a directory), and the call goes on past it *)
C24_LookupFirstMatchWins ==
  Ran =>
    /\ \A a \in SeqToSet(last.agents.deployed) :
          \E i \in DOMAIN AgentCopies(a) :
            FirstHit(AgentCopies(a), i, NoFile) /\ fs.agents[a] = AgentCopies(a)[i]
    /\ \A a \in SeqToSet(last.agents.warnings) :
          \A i \in DOMAIN AgentCopies(a) : AgentCopies(a)[i] = NoFile
    /\ \A s \in SeqToSet(last.skills.deployed) :
          \E i \in DOMAIN SkillCopies(s) :
            /\ FirstHit(SkillCopies(s), i, AbsentEntry)
            /\ fs.skills[s] = << SkillCopies(s)[i].tree >>
    /\ \A s \in SeqToSet(last.skills.warnings) :
          \/ \A i \in DOMAIN SkillCopies(s) : SkillCopies(s)[i] = AbsentEntry
          \/ \E i \in DOMAIN SkillCopies(s) :
               FirstHit(SkillCopies(s), i, AbsentEntry) /\ SkillCopies(s)[i].kind # "dir"
    /\ SeqToSet(last.agents.deployed) \cup SeqToSet(last.agents.skipped)
         \cup SeqToSet(last.agents.warnings) = SeqToSet(ProfileAgents)

(* a call copied an agent the catalog holds in a category directory and,
   with other content, in the mirror, copied a skill held in a curated
   source and in the mirror, and warned about a name in no location *)
C24_Witness ==
  /\ Ran
  /\ \E a \in SeqToSet(last.agents.deployed) :
        /\ \E i \in DOMAIN LastCatalog.agents[a].curated :
              LastCatalog.agents[a].curated[i] \notin {NoFile, LastCatalog.agents[a].ecc}
        /\ LastCatalog.agents[a].ecc # NoFile
  /\ \E s \in SeqToSet(last.skills.deployed) :
        /\ LastCatalog.skills[s].anthropic.kind = "dir"
        /\ LastCatalog.skills[s].ecc.kind = "dir"
        /\ LastCatalog.skills[s].ecc.tree # LastCatalog.skills[s].anthropic.tree
  /\ last.skills.warnings # << >>

----------------------------------------------------------------------------
(* The catalog sync *)

Synced == last.op = "check_new_skills"

(* C25: whatever exit status or timeout the clone, the listings and the
   commit query end with, the run of the catalog sync returns and writes its
   report: a clone that fails gives the status "error" with no changes and
   leaves the mirror alone, a listing that fails adds no new skill for its
   repository *)
C25_RemoteCallsFailSoft ==
  Synced =>
    LET remote == last.input[1].remote
        out == last.value[1]
    IN  /\ last.result = "returned"
        /\ Len(out.report) = 1
        /\ remote.clone # "ok" =>
              /\ out.report[1].synced_repos[1].status = "error"
              /\ out.report[1].synced_repos[1].changes = {}
              /\ out.mirror = last.input[1].mirror
        /\ \A i \in DOMAIN SKILLS_REPOS :
              remote.listing[SKILLS_REPOS[i][1]][1] # "ok" =>
                \A k \in DOMAIN out.report[1].new_skills :
                  out.report[1].new_skills[k].repo # SKILLS_REPOS[i][1]

----------------------------------------------------------------------------
(* Whole artifacts *)

(* C26: when a call of deploy ends, by returning or by the error of a copy,
   every agent file and every skill directory of the project is as it was
   before the call or is the whole source the catalog resolves for its
   name *)
C26_NoPartialArtifact ==
  Ran =>
    /\ \A a \in AgentNames :
          \/ fs.agents[a] = Pre.agents[a]
          \/ AgentResolved(a) /\ fs.agents[a] = find_agent(LastCatalog, a).content
    /\ \A s \in SkillNames :
          \/ fs.skills[s] = Pre.skills[s]
          \/ SkillResolved(s) /\ fs.skills[s] = << SkillSource(s).entry.tree >>

----------------------------------------------------------------------------
(* The lists of a call *)

NoDuplicates(seq) == \A i, j \in DOMAIN seq : seq[i] = seq[j] => i = j

(* C27: the deployed and skipped lists of a call of deploy that returns
   share no name and repeat none, for agents and for skills, and neither
   does deployed_agents or deployed_skills of the project profile it
   writes *)
C27_DeployedSkippedPartition ==
  Succeeded({"deploy", "sync"}) =>
    /\ SeqToSet(last.agents.deployed) \cap SeqToSet(last.agents.skipped) = {}
    /\ SeqToSet(last.skills.deployed) \cap SeqToSet(last.skills.skipped) = {}
    /\ NoDuplicates(last.agents.deployed) /\ NoDuplicates(last.agents.skipped)
    /\ NoDuplicates(last.skills.deployed) /\ NoDuplicates(last.skills.skipped)
    /\ NoDuplicates(ProjectState(fs).deployed_agents)
    /\ NoDuplicates(ProjectState(fs).deployed_skills)

----------------------------------------------------------------------------
(* What a call leaves alone *)

Called == last.op \in {"deploy", "sync"}

NamedAgents == IF last.profile \in DOMAIN Profiles THEN SeqToSet(ProfileAgents) ELSE {}

NamedSkills == IF last.profile \in DOMAIN Profiles THEN SeqToSet(ProfileSkills) ELSE {}

(* C28: a call of deploy or sync_project, however it ends, leaves every
   agent file and skill directory its profile does not name as it was; one
   it names and finds in the project it changes with force only; and the
   deployed_agents it writes are the agents of its own profile the catalog
   resolves, whatever earlier calls put into the project *)
C28_UnnamedArtifactsUntouched ==
  Called =>
    /\ \A a \in AgentNames \ NamedAgents : fs.agents[a] = Pre.agents[a]
    /\ \A s \in SkillNames \ NamedSkills : fs.skills[s] = Pre.skills[s]
    /\ ~last.force =>
          /\ \A a \in AgentNames : Pre.agents[a] # NoFile => fs.agents[a] = Pre.agents[a]
          /\ \A s \in SkillNames : Pre.skills[s] # << >> => fs.skills[s] = Pre.skills[s]
    /\ last.result = "true" =>
          /\ SeqToSet(ProjectState(fs).deployed_agents)
               = { a \in NamedAgents : AgentResolved(a) }
          /\ SeqToSet(ProjectState(fs).deployed_skills)
               = { s \in NamedSkills : SkillResolved(s) }

(* profile python-backend was deployed, then nextjs-frontend with force:
   python-pro, which only the first names, is still in the project and is
   not among the deployed_agents written *)
C28_Witness ==
  /\ Called
  /\ last.result = "true"
  /\ last.force
  /\ last.profile = "nextjs-frontend"
  /\ last.prev.op = "deploy" /\ last.prev.profile = "python-backend" /\ last.prev.result = "true"
  /\ "python-pro" \notin NamedAgents
  /\ fs.agents["python-pro"] # NoFile
  /\ fs.skills["tdd-workflow"] # << >>
  /\ "python-pro" \notin SeqToSet(ProjectState(fs).deployed_agents)
  /\ ProjectState(fs).deployed_agents # << >>

====
